---- MODULE Spec2Model ----
(***************************************************************************)
(* Verification model of Alden: the daily planner (plan_day), the nudge    *)
(* schedule builder, the local calendar store, the write-back engine and   *)
(* the CLI commands that drive them.                                       *)
(*                                                                         *)
(* Conventions.  A datetime is an integer number of minutes counted from   *)
(* midnight of the reference date ("today" is day 0).  An ISO string       *)
(* "YYYY-MM-DDTHH:MM" is the tuple <<day, hh, mm>>; a string that          *)
(* datetime.fromisoformat rejects is a tuple of another shape or with an   *)
(* hour/minute out of range.  An "HH:MM" string is the integer hh*60+mm.   *)
(* Python's None / a missing key is the empty tuple <<>>, a present value  *)
(* v is <<v>>.                                                             *)
(***************************************************************************)
EXTENDS Integers, Sequences, FiniteSets, TLC

\* ---------------------------------------------------------------- bounds
MaxEvents == 3

\* ------------------------------------------------------- generic helpers
Max2(a, b) == IF a >= b THEN a ELSE b
Min2(a, b) == IF a <= b THEN a ELSE b

MinutesPerDay == 24 * 60

\* ISO tuple of a datetime: datetime.isoformat(timespec="minutes")
isoformat(t) == <<t \div MinutesPerDay, (t % MinutesPerDay) \div 60, t % 60>>

\* Lexicographic order on ISO tuples (Python compares the strings)
IsoLeq(a, b) ==
    \/ a[1] < b[1]
    \/ a[1] = b[1] /\ a[2] < b[2]
    \/ a[1] = b[1] /\ a[2] = b[2] /\ a[3] <= b[3]

\* ------------------------------------------------- planning/daily_planner
WORK_START == 480
WORK_END == 1200
MIN_GAP_BLOCK_MIN == 30
DefaultDuration == 60
MinDuration == 5
MaxDuration == 720

\* `e.get("priority") or "normal"`
OrNormal(p) == IF p = "" THEN "normal" ELSE p

_priority_weight(p) ==
    CASE OrNormal(p) = "high" -> 0
      [] OrNormal(p) = "normal" -> 1
      [] OrNormal(p) = "low" -> 2
      [] OTHER -> 1

\* datetime.fromisoformat: <<t>> on success, <<>> (None) on failure
_parse_time(iso_str) ==
    IF Len(iso_str) = 3 /\ iso_str[2] \in 0..23 /\ iso_str[3] \in 0..59
    THEN <<iso_str[1] * MinutesPerDay + iso_str[2] * 60 + iso_str[3]>>
    ELSE <<>>

date(t) == t \div MinutesPerDay

_get_duration(e) ==
    IF e.duration_min = <<>> THEN DefaultDuration
    ELSE Max2(MinDuration, Min2(e.duration_min[1], MaxDuration))

_fmt_hhmm(t) == t % MinutesPerDay

\* _work_bounds(day): the work window of the day that holds `now`
_work_bounds(now) ==
    [start |-> date(now) * MinutesPerDay + WORK_START,
     end   |-> date(now) * MinutesPerDay + WORK_END]

\* Annotate without the copy of line 78: the metadata lands in the caller's dict
Annotate_InPlace(e, now) ==
    LET t == _parse_time(e.time) IN
    IF t = <<>> \/ date(t[1]) # date(now) THEN [caller |-> e, local |-> <<>>]
    ELSE LET dur == _get_duration(e)
             m == [id |-> e.id, title |-> e.title, priority |-> e.priority,
                   _start |-> t[1], _dur |-> dur, _end |-> t[1] + dur,
                   _pwt |-> _priority_weight(e.priority)]
         IN [caller |-> m, local |-> <<m>>]

\* plan_day lines 74-83, one input event.  `caller` is the caller's dict as the
\* loop leaves it; `local` is <<>> when the event is skipped, else the shallow
\* copy (line 78), with the planner's metadata attached and the keys that
\* lines 84-211 read.
Annotate(e, now) ==
    LET t == _parse_time(e.time) IN
    IF t = <<>> \/ date(t[1]) # date(now) THEN [caller |-> e, local |-> <<>>]
    ELSE LET dur == _get_duration(e) IN
         [caller |-> e,
          local |-> << [id |-> e.id, title |-> e.title, priority |-> e.priority,
                        _start |-> t[1], _dur |-> dur, _end |-> t[1] + dur,
                        _pwt |-> _priority_weight(e.priority)] >>]

\* plan_day lines 73-83: the caller's list afterwards, and `todays`
RECURSIVE FilterToday(_, _)
FilterToday(events, now) ==
    IF events = <<>> THEN [caller |-> <<>>, todays |-> <<>>]
    ELSE LET a == Annotate(Head(events), now)
             r == FilterToday(Tail(events), now)
         IN [caller |-> <<a.caller>> \o r.caller, todays |-> a.local \o r.todays]

\* sort key of line 86: (e["_start"], e["_pwt"])
KeyLeq(a, b) ==
    \/ a._start < b._start
    \/ a._start = b._start /\ a._pwt <= b._pwt

\* list.sort is stable: insert x after every element whose key is <= x's
RECURSIVE InsertSorted(_, _)
InsertSorted(x, s) ==
    IF s = <<>> THEN <<x>>
    ELSE IF KeyLeq(Head(s), x) THEN <<Head(s)>> \o InsertSorted(x, Tail(s))
    ELSE <<x>> \o s

RECURSIVE SortTodays(_)
SortTodays(s) ==
    IF s = <<>> THEN <<>>
    ELSE InsertSorted(s[Len(s)], SortTodays(SubSeq(s, 1, Len(s) - 1)))

Reschedule(e, old_start, moved) ==
    [id |-> e.id, title |-> e.title,
     old_start |-> isoformat(old_start),
     new_start |-> isoformat(moved._start),
     duration_min |-> moved._dur]

RescheduleNudge(e, moved, other, high) ==
    [kind |-> "rescheduled", title |-> e.title, to |-> _fmt_hhmm(moved._start),
     conflict_with |-> other.title, high |-> high]

\* ShiftLast without the max of line 108: the displaced event starts at the
\* candidate's end
ShiftLast_ToCandidateEnd(d, e) ==
    LET last == d.scheduled[Len(d.scheduled)]
        mstart == e._end
        moved == [last EXCEPT !._start = mstart, !._end = mstart + last._dur]
    IN [scheduled |-> Append([d.scheduled EXCEPT ![Len(d.scheduled)] = e], moved),
        reschedules |-> Append(d.reschedules, Reschedule(last, last._start, moved)),
        nudges |-> Append(d.nudges, RescheduleNudge(last, moved, e, TRUE))]

\* plan_day lines 105-123: the candidate has strictly higher priority
ShiftLast(d, e) ==
    LET last == d.scheduled[Len(d.scheduled)]
        mstart == Max2(e._end, last._start)
        moved == [last EXCEPT !._start = mstart, !._end = mstart + last._dur]
    IN [scheduled |-> Append([d.scheduled EXCEPT ![Len(d.scheduled)] = e], moved),
        reschedules |-> Append(d.reschedules, Reschedule(last, last._start, moved)),
        nudges |-> Append(d.nudges, RescheduleNudge(last, moved, e, TRUE))]

\* ShiftCandidate with line 129 dropped: the moved copy keeps its old end
ShiftCandidate_StaleEnd(d, e) ==
    LET last == d.scheduled[Len(d.scheduled)]
        moved == [e EXCEPT !._start = last._end]
    IN [scheduled |-> Append(d.scheduled, moved),
        reschedules |-> Append(d.reschedules, Reschedule(e, e._start, moved)),
        nudges |-> Append(d.nudges, RescheduleNudge(e, moved, last, FALSE))]

\* plan_day lines 124-141: the candidate has equal or lower priority
ShiftCandidate(d, e) ==
    LET last == d.scheduled[Len(d.scheduled)]
        moved == [e EXCEPT !._start = last._end, !._end = last._end + e._dur]
    IN [scheduled |-> Append(d.scheduled, moved),
        reschedules |-> Append(d.reschedules, Reschedule(e, e._start, moved)),
        nudges |-> Append(d.nudges, RescheduleNudge(e, moved, last, FALSE))]

\* plan_day lines 94-141: one iteration of the de-conflict loop
Deconflict(d, e) ==
    IF d.scheduled = <<>> THEN [d EXCEPT !.scheduled = <<e>>]
    ELSE LET last == d.scheduled[Len(d.scheduled)] IN
         IF e._start >= last._end THEN [d EXCEPT !.scheduled = Append(@, e)]
         ELSE IF e._pwt < last._pwt THEN ShiftLast(d, e)
         ELSE ShiftCandidate(d, e)

GapBlock(from, until, pr) ==
    [start |-> _fmt_hhmm(from), end |-> _fmt_hhmm(until),
     title |-> "Open Focus Block", priority |-> pr, source |-> "gap"]

FocusBlock(from, until) == [start |-> _fmt_hhmm(from), end |-> _fmt_hhmm(until)]

\* _add_gap with `>` for `>=` on line 152
_add_gap_StrictThreshold(b, until, default_priority) ==
    IF until <= b.cursor THEN b
    ELSE LET gap_len == until - b.cursor IN
         IF gap_len > MIN_GAP_BLOCK_MIN
         THEN [blocks |-> Append(b.blocks, GapBlock(b.cursor, until, default_priority)),
               focus_blocks |-> Append(b.focus_blocks, FocusBlock(b.cursor, until)),
               cursor |-> until]
         ELSE [b EXCEPT !.cursor = until]

\* plan_day lines 147-161
_add_gap(b, until, default_priority) ==
    IF until <= b.cursor THEN b
    ELSE LET gap_len == until - b.cursor IN
         IF gap_len >= MIN_GAP_BLOCK_MIN
         THEN [blocks |-> Append(b.blocks, GapBlock(b.cursor, until, default_priority)),
               focus_blocks |-> Append(b.focus_blocks, FocusBlock(b.cursor, until)),
               cursor |-> until]
         ELSE [b EXCEPT !.cursor = until]

EventBlock(e, evt_start, evt_end) ==
    [start |-> _fmt_hhmm(evt_start), end |-> _fmt_hhmm(evt_end),
     title |-> e.title, priority |-> OrNormal(e.priority), source |-> "event",
     event_id |-> e.id]

\* plan_day lines 163-179: one iteration of the block-building loop
BuildBlock(b, e, now) ==
    LET evt_start == Max2(e._start, _work_bounds(now).start)
        evt_end == Min2(e._end, _work_bounds(now).end)
        g == _add_gap(b, evt_start, "normal")
    IN IF evt_end > evt_start
       THEN [g EXCEPT !.blocks = Append(@, EventBlock(e, evt_start, evt_end)),
                      !.cursor = evt_end]
       ELSE g

\* plan_day lines 181-192
PostEndGap(b, now) ==
    LET day_end == _work_bounds(now).end IN
    IF b.cursor < day_end /\ day_end - b.cursor >= MIN_GAP_BLOCK_MIN
    THEN [b EXCEPT !.blocks = Append(@, GapBlock(b.cursor, day_end, "low")),
                   !.focus_blocks = Append(@, FocusBlock(b.cursor, day_end))]
    ELSE b

\* plan_day lines 196-201
TemplateBlocks ==
    << [start |-> 540, end |-> 660, title |-> "Deep Work", priority |-> "high", source |-> "gap"],
       [start |-> 660, end |-> 720, title |-> "Admin / Messages", priority |-> "normal", source |-> "gap"],
       [start |-> 780, end |-> 900, title |-> "Project Block", priority |-> "normal", source |-> "gap"],
       [start |-> 930, end |-> 1020, title |-> "Light Tasks", priority |-> "low", source |-> "gap"] >>

FallbackNudge == [kind |-> "no_events"]

\* Finish with line 203 dropped: the fallback keeps the computed focus_blocks
Finish_KeepsFocusBlocks(d, b, now) ==
    LET p == PostEndGap(b, now) IN
    IF d.scheduled = <<>>
    THEN [blocks |-> TemplateBlocks, nudges |-> Append(d.nudges, FallbackNudge),
          reschedules |-> <<>>, focus_blocks |-> p.focus_blocks]
    ELSE [blocks |-> p.blocks, nudges |-> d.nudges,
          reschedules |-> d.reschedules, focus_blocks |-> p.focus_blocks]

\* plan_day lines 194-211: the fallback and the returned dict
Finish(d, b, now) ==
    LET p == PostEndGap(b, now) IN
    IF d.scheduled = <<>>
    THEN [blocks |-> TemplateBlocks, nudges |-> Append(d.nudges, FallbackNudge),
          reschedules |-> <<>>, focus_blocks |-> <<>>]
    ELSE [blocks |-> p.blocks, nudges |-> d.nudges,
          reschedules |-> d.reschedules, focus_blocks |-> p.focus_blocks]

EmptyDeconflict == [scheduled |-> <<>>, reschedules |-> <<>>, nudges |-> <<>>]

EmptyBuild(now) == [blocks |-> <<>>, focus_blocks |-> <<>>, cursor |-> _work_bounds(now).start]

RECURSIVE DeconflictAll(_, _)
DeconflictAll(d, todays) ==
    IF todays = <<>> THEN d
    ELSE DeconflictAll(Deconflict(d, Head(todays)), Tail(todays))

RECURSIVE BuildAll(_, _, _)
BuildAll(b, scheduled, now) ==
    IF scheduled = <<>> THEN b
    ELSE BuildAll(BuildBlock(b, Head(scheduled), now), Tail(scheduled), now)

\* plan_day as a whole (lines 64-211)
plan_day(events, now) ==
    LET d == DeconflictAll(EmptyDeconflict, SortTodays(FilterToday(events, now).todays))
    IN Finish(d, BuildAll(EmptyBuild(now), d.scheduled, now), now)

\* ------------------------------------------------------------ utils/config
CONFIG ==
    [nudges |-> [prep_high_minutes |-> 10, prep_normal_minutes |-> 5,
                 wrap_minutes |-> 2, gap_mid_check_min_duration |-> 60],
     notifications |-> [enabled |-> TRUE,
                        types |-> [prep |-> TRUE, mid_gap_check |-> TRUE,
                                   wrap |-> TRUE, day_wrap |-> TRUE]],
     write_back |-> [enabled |-> FALSE, materialize_focus_blocks |-> FALSE,
                     focus_block |-> [title |-> "Focus Block", category |-> "focus",
                                      priority |-> "normal",
                                      duration_min_default |-> 60]],
     weekly_anchors |-> [enabled |-> TRUE,
                         by_weekday |-> [wd \in 0..4 |->
                             << [title |-> "Deep Work", start |-> <<540>>, end |-> <<660>>,
                                 priority |-> "high"] >>],
                         default_category |-> "focus",
                         default_duration_min |-> 60]]

\* ------------------------------------------------------ core/notifications
\* _hhmm_to_dt_for_day: the HH:MM of a block on the day of `ref`
_hhmm_to_dt_for_day(hhmm, ref) == date(ref) * MinutesPerDay + hhmm

NudgeEntry(t, type, title) == [at |-> isoformat(t), type |-> type, title |-> title]

\* build_nudge_schedule lines 44-52
PrepEntries(blk, ref, cfg) ==
    IF cfg.notifications.types.prep /\ blk.source = "event"
    THEN LET delta == IF blk.priority = "high" THEN cfg.nudges.prep_high_minutes
                      ELSE cfg.nudges.prep_normal_minutes
         IN <<NudgeEntry(_hhmm_to_dt_for_day(blk.start, ref) - delta, "prep", blk.title)>>
    ELSE <<>>

\* build_nudge_schedule lines 54-63
MidEntries(blk, ref, cfg) ==
    LET start == _hhmm_to_dt_for_day(blk.start, ref)
        end == _hhmm_to_dt_for_day(blk.end, ref)
    IN IF /\ cfg.notifications.types.mid_gap_check
          /\ blk.source = "gap"
          /\ end - start >= cfg.nudges.gap_mid_check_min_duration
       THEN <<NudgeEntry(start + (end - start) \div 2, "mid", blk.title)>>
       ELSE <<>>

\* build_nudge_schedule lines 65-72
WrapEntries(blk, ref, cfg) ==
    IF cfg.notifications.types.wrap
    THEN <<NudgeEntry(_hhmm_to_dt_for_day(blk.end, ref) - cfg.nudges.wrap_minutes,
                      "wrap", blk.title)>>
    ELSE <<>>

\* build_nudge_schedule lines 34-72
RECURSIVE BlockEntries(_, _, _)
BlockEntries(blocks, ref, cfg) ==
    IF blocks = <<>> THEN <<>>
    ELSE PrepEntries(Head(blocks), ref, cfg) \o MidEntries(Head(blocks), ref, cfg)
         \o WrapEntries(Head(blocks), ref, cfg) \o BlockEntries(Tail(blocks), ref, cfg)

\* build_nudge_schedule lines 74-83
DayWrapEntries(blocks, ref, cfg) ==
    IF cfg.notifications.types.day_wrap /\ blocks # <<>>
    THEN <<NudgeEntry(_hhmm_to_dt_for_day(blocks[Len(blocks)].end, ref), "day_wrap", "")>>
    ELSE <<>>

\* out.sort(key=lambda n: n["at"]), stable
RECURSIVE InsertByAt(_, _)
InsertByAt(x, s) ==
    IF s = <<>> THEN <<x>>
    ELSE IF IsoLeq(Head(s).at, x.at) THEN <<Head(s)>> \o InsertByAt(x, Tail(s))
    ELSE <<x>> \o s

RECURSIVE SortByAt(_)
SortByAt(s) ==
    IF s = <<>> THEN <<>>
    ELSE InsertByAt(s[Len(s)], SortByAt(SubSeq(s, 1, Len(s) - 1)))

\* build_nudge_schedule lines 20-86
build_nudge_schedule(plan, ref, cfg) ==
    IF ~cfg.notifications.enabled THEN <<>>
    ELSE SortByAt(BlockEntries(plan.blocks, ref, cfg) \o DayWrapEntries(plan.blocks, ref, cfg))

\* ------------------------------------------------ alden_calendar/calendar
\* The store file is <<>> while it does not exist, else <<events>>: the list
\* json.load reads back.  An event's duration_min is <<n>>.

\* load_calendar lines 12-16: creates the file when it is missing
load_calendar(file) ==
    IF file = <<>> THEN [file |-> << <<>> >>, events |-> <<>>]
    ELSE [file |-> file, events |-> file[1]]

\* save_calendar lines 19-21, as one whole write
save_calendar(events_) == <<events_>>

\* add_event lines 24-45; `uuid` is the value uuid.uuid4() returns.  The
\* `created` stamp, which no code reads, is left out.
add_event(file, uuid, title, time_str, category, priority, duration_min) ==
    LET ev == [id |-> uuid, title |-> title, time |-> time_str, category |-> category,
               priority |-> priority, duration_min |-> <<duration_min>>,
               status |-> "scheduled"]
    IN [file |-> save_calendar(Append(load_calendar(file).events, ev)), ev |-> ev]

\* get_today_events lines 52-54: the time string starts with today's date
get_today_events(file, now_) ==
    LET StartsWithToday(e) == Len(e.time) >= 1 /\ e.time[1] = date(now_)
    IN [file |-> load_calendar(file).file,
        events |-> SelectSeq(load_calendar(file).events, StartsWithToday)]

_match_id_or_title(ev, id_or_title) == ev.id = id_or_title \/ ev.title = id_or_title

\* delete_event lines 79-85
delete_event(file, id_or_title) ==
    LET evs == load_calendar(file).events
        Keep(e) == ~_match_id_or_title(e, id_or_title)
        new_events == SelectSeq(evs, Keep)
        changed == Len(new_events) # Len(evs)
    IN [file |-> IF changed THEN save_calendar(new_events) ELSE load_calendar(file).file,
        changed |-> changed]

\* `fields` of update_event: every key is <<>> (None, not given) or <<value>>
NoFields == [title |-> <<>>, time |-> <<>>, category |-> <<>>, priority |-> <<>>,
             status |-> <<>>, duration_min |-> <<>>]

\* line 99: e.update({k: v for k, v in fields.items() if v is not None})
UpdateFields(e, fields) ==
    [id |-> e.id,
     title |-> IF fields.title = <<>> THEN e.title ELSE fields.title[1],
     time |-> IF fields.time = <<>> THEN e.time ELSE fields.time[1],
     category |-> IF fields.category = <<>> THEN e.category ELSE fields.category[1],
     priority |-> IF fields.priority = <<>> THEN e.priority ELSE fields.priority[1],
     duration_min |-> IF fields.duration_min = <<>> THEN e.duration_min ELSE fields.duration_min,
     status |-> IF fields.status = <<>> THEN e.status ELSE fields.status[1]]

\* index of the first event the key matches, 0 when there is none
FirstMatch(evs, id_or_title) ==
    LET hits == {k \in 1..Len(evs) : _match_id_or_title(evs[k], id_or_title)}
    IN IF hits = {} THEN 0 ELSE CHOOSE k \in hits : \A j \in hits : k <= j

\* update_event with the `break` of line 101 dropped: every match is updated
update_event_NoBreak(file, id_or_title, fields) ==
    LET evs == load_calendar(file).events
        k == FirstMatch(evs, id_or_title)
        new_events == [j \in 1..Len(evs) |->
                          IF _match_id_or_title(evs[j], id_or_title)
                          THEN UpdateFields(evs[j], fields) ELSE evs[j]]
    IN IF k = 0 THEN [file |-> load_calendar(file).file, updated |-> <<>>]
       ELSE [file |-> save_calendar(new_events), updated |-> <<new_events[k]>>]

\* update_event lines 88-104
update_event(file, id_or_title, fields) ==
    LET evs == load_calendar(file).events
        k == FirstMatch(evs, id_or_title)
    IN IF k = 0 THEN [file |-> load_calendar(file).file, updated |-> <<>>]
       ELSE [file |-> save_calendar([evs EXCEPT ![k] = UpdateFields(evs[k], fields)]),
             updated |-> <<UpdateFields(evs[k], fields)>>]

\* ---------------------------------------------------------- core/writeback
\* _today_iso_at: f"{today}T{hhmm}"
_today_iso_at(hhmm, now_) == <<date(now_), hhmm \div 60, hhmm % 60>>

\* ApplyReschedule as an additive write: the moved event is stored as a new
\* record next to the old one
ApplyReschedule_Duplicates(w, r) ==
    LET eid == IF r.id # "" THEN r.id ELSE r.title
        evs == load_calendar(w.file).events
        k == FirstMatch(evs, eid)
    IN IF eid = "" \/ r.new_start = <<>> \/ k = 0 THEN w
       ELSE [file |-> save_calendar(Append(evs, [evs[k] EXCEPT !.time = r.new_start])),
             msgs |-> Append(w.msgs, evs[k].id)]

\* apply_reschedules lines 22-30, one proposal.  A missing id or title is "".
ApplyReschedule(w, r) ==
    LET eid == IF r.id # "" THEN r.id ELSE r.title IN
    IF eid = "" \/ r.new_start = <<>> THEN w
    ELSE LET u == update_event(w.file, eid, [NoFields EXCEPT !.time = <<r.new_start>>])
         IN [file |-> u.file,
             msgs |-> IF u.updated = <<>> THEN w.msgs ELSE Append(w.msgs, u.updated[1].id)]

\* apply_reschedules lines 19-31
RECURSIVE ApplyReschedulesFrom(_, _)
ApplyReschedulesFrom(w, rs) ==
    IF rs = <<>> THEN w
    ELSE ApplyReschedulesFrom(ApplyReschedule(w, Head(rs)), Tail(rs))

apply_reschedules(file, rs) == ApplyReschedulesFrom([file |-> file, msgs |-> <<>>], rs)

\* datetime.strptime(text, "%H:%M") raises for a text that is no time of day;
\* a text whose hour is past 23 is carried as minutes past the day
Strptime_Raises(hhmm) == hhmm < 0 \/ hhmm >= MinutesPerDay

\* One focus block, with a block of length zero let through
MaterializeFocusBlock_ZeroLength(w, fb, now_, fb_cfg) ==
    IF "start" \notin DOMAIN fb \/ "end" \notin DOMAIN fb THEN w
    ELSE LET raised_ == Strptime_Raises(fb.start) \/ Strptime_Raises(fb["end"])
             duration_min == IF raised_ THEN fb_cfg.duration_min_default
                             ELSE fb["end"] - fb.start
         IN IF ~raised_ /\ duration_min < 0 THEN w
            ELSE LET a == add_event(w.file, "id" \o ToString(w.uuid), fb_cfg.title,
                                    _today_iso_at(fb.start, now_), fb_cfg.category,
                                    fb_cfg.priority, duration_min)
                 IN [file |-> a.file, uuid |-> w.uuid + 1, msgs |-> Append(w.msgs, a.ev.id)]

\* materialize_focus_blocks lines 42-66, one focus block; w.uuid counts the
\* identifiers uuid.uuid4() has handed out, and a message is carried as the
\* identifier of the event it reports.  A block without start or end is
\* skipped, a text strptime rejects gives the default duration.
MaterializeFocusBlock(w, fb, now_, fb_cfg) ==
    IF "start" \notin DOMAIN fb \/ "end" \notin DOMAIN fb THEN w
    ELSE LET raised_ == Strptime_Raises(fb.start) \/ Strptime_Raises(fb["end"])
             duration_min == IF raised_ THEN fb_cfg.duration_min_default
                             ELSE fb["end"] - fb.start
         IN IF ~raised_ /\ duration_min <= 0 THEN w
            ELSE LET a == add_event(w.file, "id" \o ToString(w.uuid), fb_cfg.title,
                                    _today_iso_at(fb.start, now_), fb_cfg.category,
                                    fb_cfg.priority, duration_min)
                 IN [file |-> a.file, uuid |-> w.uuid + 1, msgs |-> Append(w.msgs, a.ev.id)]

RECURSIVE MaterializeFrom(_, _, _, _)
MaterializeFrom(w, fbs, now_, fb_cfg) ==
    IF fbs = <<>> THEN w
    ELSE MaterializeFrom(MaterializeFocusBlock(w, Head(fbs), now_, fb_cfg), Tail(fbs), now_, fb_cfg)

\* materialize_focus_blocks lines 34-67
materialize_focus_blocks(file, uuid, focus_blocks_, now_, fb_cfg) ==
    MaterializeFrom([file |-> file, uuid |-> uuid, msgs |-> <<>>], focus_blocks_, now_, fb_cfg)

\* ======================================================================
\* State
\* ======================================================================
\* The planner run: the locals of plan_day, its result and the nudge schedule
VARIABLES pc, now, events, todays, i, scheduled, reschedules, nudges, blocks, focus_blocks, cursor, plan, sched

\* The CLI run: the calendar store file, the uuids handed out, the stored
\* events before the command, and the command run with what it reported
VARIABLES cli_pc, calendar_file, uuid, before, cmd

\* The store file under a writer and a reader: the file's text, the writer's
\* position in save_calendar with the list it saves and the text it still
\* holds in its buffer, what the reader's load_calendar returned, and the
\* stored lists before and after the write
VARIABLES disk, w_pc, w_events, w_buf, r_pc, r_seen, f_before, f_after

planVars == <<pc, now, events, todays, i, scheduled, reschedules, nudges, blocks, focus_blocks, cursor, plan, sched>>

cliVars == <<cli_pc, calendar_file, uuid, before, cmd>>

fileVars == <<disk, w_pc, w_events, w_buf, r_pc, r_seen, f_before, f_after>>

PlanIdle ==
    /\ pc = "idle"
    /\ events = <<>>
    /\ todays = <<>>
    /\ i = 0
    /\ scheduled = <<>>
    /\ reschedules = <<>>
    /\ nudges = <<>>
    /\ blocks = <<>>
    /\ focus_blocks = <<>>
    /\ cursor = 0
    /\ plan = <<>>
    /\ sched = <<>>

\* The planner idle, in a run that reads no clock
PlanOff == PlanIdle /\ now = 0

CliIdle ==
    /\ cli_pc = "idle"
    /\ calendar_file = <<>>
    /\ uuid = 1
    /\ before = <<>>
    /\ cmd = [name |-> "none"]

FileIdle ==
    /\ disk = <<>>
    /\ w_pc = "idle"
    /\ w_events = <<>>
    /\ w_buf = <<>>
    /\ r_pc = "idle"
    /\ r_seen = <<>>
    /\ f_before = <<>>
    /\ f_after = <<>>

\* A save_json call on a path: whether the lock marker exists, whether it
\* was there when the call began, the caller's position, the time since
\* `start` in units of `poll`, the markers the caller has force-removed, and
\* the temp file and the target file
VARIABLES lock_exists, stale, l_pc, elapsed, unlinks, l_tmp, l_file

lockVars == <<lock_exists, stale, l_pc, elapsed, unlinks, l_tmp, l_file>>

LockIdle ==
    /\ lock_exists = FALSE
    /\ stale = FALSE
    /\ l_pc = "idle"
    /\ elapsed = 0
    /\ unlinks = 0
    /\ l_tmp = <<>>
    /\ l_file = <<>>

\* learning/patterns: the audit log (data/plan_log.jsonl, one record per
\* line), the preferences file (<<>> while absent), what the last
\* learn_preferences call returned, the learn_preferences calls made since
\* the log last grew, and what the first of them returned
VARIABLES plan_log, preferences, returned, runs, first_run

learnVars == <<plan_log, preferences, returned, runs, first_run>>

LearnIdle ==
    /\ plan_log = <<>>
    /\ preferences = <<>>
    /\ returned = <<>>
    /\ runs = 0
    /\ first_run = <<>>

\* utils/budget: the ledger file (<<>> while absent), the values the record
\* calls returned, in call order, and what the last total_spend call
\* returned (<<>> before it, and after a later record)
VARIABLES budget_file, usd_returned, total_returned

budgetVars == <<budget_file, usd_returned, total_returned>>

BudgetIdle ==
    /\ budget_file = <<>>
    /\ usd_returned = <<>>
    /\ total_returned = <<>>

\* email_service/feedback_handler: the feedback file (<<>> while absent),
\* the profile it held before the last call, the last call with its
\* arguments, and the calls made
VARIABLES feedback_file, fb_before, fb_call, fb_calls

feedbackVars == <<feedback_file, fb_before, fb_call, fb_calls>>

FeedbackIdle ==
    /\ feedback_file = <<>>
    /\ fb_before = <<>>
    /\ fb_call = [name |-> "none"]
    /\ fb_calls = 0

\* alden_main telemetry: the relational store (the flows registry and the
\* gps table), the flow identifiers generated so far, the store before the
\* last submission, the last submission with its outcome, and the
\* submissions made
VARIABLES db, flows_generated, t_before, t_call, t_calls

telemetryVars == <<db, flows_generated, t_before, t_call, t_calls>>

EmptyDb ==
    [flows |-> <<>>, gps |-> <<>>, calendar_events |-> <<>>,
     screen_usage_sessions |-> <<>>, user_events |-> <<>>]

TelemetryIdle ==
    /\ db = EmptyDb
    /\ flows_generated = 0
    /\ t_before = EmptyDb
    /\ t_call = [name |-> "none"]
    /\ t_calls = 0

\* The week commands: the calendar store file, the uuids handed out, the
\* weekly_anchors configuration, the stored events before the command, and
\* the command run with the outline plan_week returned to it
VARIABLES week_file, week_uuid, week_config, week_before, week_cmd, week_cmds

weekVars == <<week_file, week_uuid, week_config, week_before, week_cmd, week_cmds>>

WeekIdle ==
    /\ week_file = <<>>
    /\ week_uuid = 0
    /\ week_config = <<>>
    /\ week_before = <<>>
    /\ week_cmd = [name |-> "none"]
    /\ week_cmds = 0

\* calendar_sync.poll_loop: the poller's position, the remote resources, the
\* listing and the index of the cycle under way, the EventCache table, and
\* the cycles started and failed so far (counted up to a cap)
VARIABLES p_pc, remote, resources, res_i, cache, cycles, failed, cache_before, raised

pollVars == <<p_pc, remote, resources, res_i, cache, cycles, failed, cache_before, raised>>

PollIdle ==
    /\ p_pc = "off"
    /\ remote = <<>>
    /\ resources = <<>>
    /\ res_i = 0
    /\ cache = <<>>
    /\ cycles = 0
    /\ failed = 0
    /\ cache_before = <<>>
    /\ raised = FALSE

\* A run of update commands on a store: the calendar store file, the stored
\* events before the last update, the last update with its arguments, and
\* the updates made
VARIABLES upd_file, upd_before, upd_cmd, upd_count

updVars == <<upd_file, upd_before, upd_cmd, upd_count>>

UpdIdle ==
    /\ upd_file = <<>>
    /\ upd_before = <<>>
    /\ upd_cmd = [name |-> "none"]
    /\ upd_count = 0

\* feeds.summarize_articles: the articles handed in (with what fetching each
\* one's page gives), the position in the loops, the summaries so far, and
\* for every article the outcomes of the model calls made for it
VARIABLES s_pc, s_articles, art_i, attempt, summaries, outcomes, waited

feedsVars == <<s_pc, s_articles, art_i, attempt, summaries, outcomes, waited>>

FeedsIdle ==
    /\ s_pc = "off"
    /\ s_articles = <<>>
    /\ art_i = 0
    /\ attempt = 0
    /\ summaries = <<>>
    /\ outcomes = <<>>
    /\ waited = <<>>

\* materialize_focus_blocks on a list of focus blocks: the store file, the time
\* of the call, the stored events before it, the blocks handed in, the
\* messages returned, and the calls made
VARIABLES foc_file, foc_now, foc_before, foc_blocks, foc_msgs, foc_calls

focusVars == <<foc_file, foc_now, foc_before, foc_blocks, foc_msgs, foc_calls>>

FocusIdle ==
    /\ foc_file = <<>>
    /\ foc_now = 0
    /\ foc_before = <<>>
    /\ foc_blocks = <<>>
    /\ foc_msgs = <<>>
    /\ foc_calls = 0

\* The digest and its feedback links: the articles fetched, the summaries the
\* digest shows, the links rendered, the feedback file with its content
\* before the click, and the link clicked
VARIABLES d_pc, d_fetched, d_summaries, d_links, d_file, d_before, d_click

digestVars == <<d_pc, d_fetched, d_summaries, d_links, d_file, d_before, d_click>>

DigestIdle ==
    /\ d_pc = "off"
    /\ d_fetched = <<>>
    /\ d_summaries = <<>>
    /\ d_links = <<>>
    /\ d_file = <<>>
    /\ d_before = <<>>
    /\ d_click = [name |-> "none"]

\* Two processes saving to one path: each one's position in save_json and
\* its clock since _acquire_lock began, the process that created the lock
\* marker (0 while there is none), and whether a release has removed a
\* marker another process created
VARIABLES sv_pc, sv_elapsed, sv_marker, sv_foreign

raceVars == <<sv_pc, sv_elapsed, sv_marker, sv_foreign>>

RaceIdle ==
    /\ sv_pc = <<>>
    /\ sv_elapsed = <<>>
    /\ sv_marker = 0
    /\ sv_foreign = FALSE

\* Frames: all the variables, and for each run the variables it leaves alone
\* with the values they keep while it runs

vars == <<planVars, cliVars, fileVars, lockVars, learnVars, budgetVars, feedbackVars, telemetryVars, weekVars, pollVars, updVars, feedsVars, focusVars, digestVars, raceVars>>

notPlanVars == <<cliVars, fileVars, lockVars, learnVars, budgetVars, feedbackVars, telemetryVars, weekVars, pollVars, updVars, feedsVars, focusVars, digestVars, raceVars>>

notCliVars == <<planVars, fileVars, lockVars, learnVars, budgetVars, feedbackVars, telemetryVars, weekVars, pollVars, updVars, feedsVars, focusVars, digestVars, raceVars>>

notFileVars == <<planVars, cliVars, lockVars, learnVars, budgetVars, feedbackVars, telemetryVars, weekVars, pollVars, updVars, feedsVars, focusVars, digestVars, raceVars>>

notLockVars == <<planVars, cliVars, fileVars, learnVars, budgetVars, feedbackVars, telemetryVars, weekVars, pollVars, updVars, feedsVars, focusVars, digestVars, raceVars>>

notLearnVars == <<planVars, cliVars, fileVars, lockVars, budgetVars, feedbackVars, telemetryVars, weekVars, pollVars, updVars, feedsVars, focusVars, digestVars, raceVars>>

notBudgetVars == <<planVars, cliVars, fileVars, lockVars, learnVars, feedbackVars, telemetryVars, weekVars, pollVars, updVars, feedsVars, focusVars, digestVars, raceVars>>

notFeedbackVars == <<planVars, cliVars, fileVars, lockVars, learnVars, budgetVars, telemetryVars, weekVars, pollVars, updVars, feedsVars, focusVars, digestVars, raceVars>>

notTelemetryVars == <<planVars, cliVars, fileVars, lockVars, learnVars, budgetVars, feedbackVars, weekVars, pollVars, updVars, feedsVars, focusVars, digestVars, raceVars>>

notWeekVars == <<planVars, cliVars, fileVars, lockVars, learnVars, budgetVars, feedbackVars, telemetryVars, pollVars, updVars, feedsVars, focusVars, digestVars, raceVars>>

notPollVars == <<planVars, cliVars, fileVars, lockVars, learnVars, budgetVars, feedbackVars, telemetryVars, weekVars, updVars, feedsVars, focusVars, digestVars, raceVars>>

notUpdVars == <<planVars, cliVars, fileVars, lockVars, learnVars, budgetVars, feedbackVars, telemetryVars, weekVars, pollVars, feedsVars, focusVars, digestVars, raceVars>>

notFeedsVars == <<planVars, cliVars, fileVars, lockVars, learnVars, budgetVars, feedbackVars, telemetryVars, weekVars, pollVars, updVars, focusVars, digestVars, raceVars>>

notFocusVars == <<planVars, cliVars, fileVars, lockVars, learnVars, budgetVars, feedbackVars, telemetryVars, weekVars, pollVars, updVars, feedsVars, digestVars, raceVars>>

notDigestVars == <<planVars, cliVars, fileVars, lockVars, learnVars, budgetVars, feedbackVars, telemetryVars, weekVars, pollVars, updVars, feedsVars, focusVars, raceVars>>

notRaceVars == <<planVars, cliVars, fileVars, lockVars, learnVars, budgetVars, feedbackVars, telemetryVars, weekVars, pollVars, updVars, feedsVars, focusVars, digestVars>>

NotPlanIdle == CliIdle /\ FileIdle /\ LockIdle /\ LearnIdle /\ BudgetIdle /\ FeedbackIdle /\ TelemetryIdle /\ WeekIdle /\ PollIdle /\ UpdIdle /\ FeedsIdle /\ FocusIdle /\ DigestIdle /\ RaceIdle

NotCliIdle == PlanIdle /\ FileIdle /\ LockIdle /\ LearnIdle /\ BudgetIdle /\ FeedbackIdle /\ TelemetryIdle /\ WeekIdle /\ PollIdle /\ UpdIdle /\ FeedsIdle /\ FocusIdle /\ DigestIdle /\ RaceIdle

NotFileIdle == PlanIdle /\ CliIdle /\ LockIdle /\ LearnIdle /\ BudgetIdle /\ FeedbackIdle /\ TelemetryIdle /\ WeekIdle /\ PollIdle /\ UpdIdle /\ FeedsIdle /\ FocusIdle /\ DigestIdle /\ RaceIdle

NotLockIdle == PlanOff /\ CliIdle /\ FileIdle /\ LearnIdle /\ BudgetIdle /\ FeedbackIdle /\ TelemetryIdle /\ WeekIdle /\ PollIdle /\ UpdIdle /\ FeedsIdle /\ FocusIdle /\ DigestIdle /\ RaceIdle

NotLearnIdle == PlanOff /\ CliIdle /\ FileIdle /\ LockIdle /\ BudgetIdle /\ FeedbackIdle /\ TelemetryIdle /\ WeekIdle /\ PollIdle /\ UpdIdle /\ FeedsIdle /\ FocusIdle /\ DigestIdle /\ RaceIdle

NotBudgetIdle == PlanOff /\ CliIdle /\ FileIdle /\ LockIdle /\ LearnIdle /\ FeedbackIdle /\ TelemetryIdle /\ WeekIdle /\ PollIdle /\ UpdIdle /\ FeedsIdle /\ FocusIdle /\ DigestIdle /\ RaceIdle

NotFeedbackIdle == PlanOff /\ CliIdle /\ FileIdle /\ LockIdle /\ LearnIdle /\ BudgetIdle /\ TelemetryIdle /\ WeekIdle /\ PollIdle /\ UpdIdle /\ FeedsIdle /\ FocusIdle /\ DigestIdle /\ RaceIdle

NotTelemetryIdle == PlanOff /\ CliIdle /\ FileIdle /\ LockIdle /\ LearnIdle /\ BudgetIdle /\ FeedbackIdle /\ WeekIdle /\ PollIdle /\ UpdIdle /\ FeedsIdle /\ FocusIdle /\ DigestIdle /\ RaceIdle

NotWeekIdle == PlanIdle /\ CliIdle /\ FileIdle /\ LockIdle /\ LearnIdle /\ BudgetIdle /\ FeedbackIdle /\ TelemetryIdle /\ PollIdle /\ UpdIdle /\ FeedsIdle /\ FocusIdle /\ DigestIdle /\ RaceIdle

NotPollIdle == PlanOff /\ CliIdle /\ FileIdle /\ LockIdle /\ LearnIdle /\ BudgetIdle /\ FeedbackIdle /\ TelemetryIdle /\ WeekIdle /\ UpdIdle /\ FeedsIdle /\ FocusIdle /\ DigestIdle /\ RaceIdle

NotUpdIdle == PlanOff /\ CliIdle /\ FileIdle /\ LockIdle /\ LearnIdle /\ BudgetIdle /\ FeedbackIdle /\ TelemetryIdle /\ WeekIdle /\ PollIdle /\ FeedsIdle /\ FocusIdle /\ DigestIdle /\ RaceIdle

NotFeedsIdle == PlanOff /\ CliIdle /\ FileIdle /\ LockIdle /\ LearnIdle /\ BudgetIdle /\ FeedbackIdle /\ TelemetryIdle /\ WeekIdle /\ PollIdle /\ UpdIdle /\ FocusIdle /\ DigestIdle /\ RaceIdle

NotFocusIdle == PlanOff /\ CliIdle /\ FileIdle /\ LockIdle /\ LearnIdle /\ BudgetIdle /\ FeedbackIdle /\ TelemetryIdle /\ WeekIdle /\ PollIdle /\ UpdIdle /\ FeedsIdle /\ DigestIdle /\ RaceIdle

NotDigestIdle == PlanOff /\ CliIdle /\ FileIdle /\ LockIdle /\ LearnIdle /\ BudgetIdle /\ FeedbackIdle /\ TelemetryIdle /\ WeekIdle /\ PollIdle /\ UpdIdle /\ FeedsIdle /\ FocusIdle /\ RaceIdle

NotRaceIdle == PlanOff /\ CliIdle /\ FileIdle /\ LockIdle /\ LearnIdle /\ BudgetIdle /\ FeedbackIdle /\ TelemetryIdle /\ WeekIdle /\ PollIdle /\ UpdIdle /\ FeedsIdle /\ FocusIdle /\ DigestIdle
\* ======================================================================
\* The planner run: plan_day(events, ref_date) executed statement by
\* statement, followed by build_nudge_schedule on the plan it returned.
\* ======================================================================
\* Inputs of the planner run
RefDates == {600}
Times == {<<0, 8, 30>>, <<0, 19, 0>>, <<0, 19, 10>>}
Priorities == {"high", "normal"}
Durations == {<<30>>, <<>>}
LowTimes == {<<0, 19, 0>>, <<0, 19, 10>>}

\* Events the planner reads in full, and events it skips after reading `time`
\* (another date; an hour fromisoformat rejects)
PlannedShapes ==
    [time : Times, priority : Priorities, duration_min : Durations]
        \cup [time : LowTimes, priority : {"low"}, duration_min : {<<>>}]
SkippedShapes == [time : {<<1, 9, 0>>, <<0, 25, 0>>}, priority : {"normal"}, duration_min : {<<>>}]
EventShapes == PlannedShapes \cup SkippedShapes

\* An event dict of that shape, with the keys plan_day reads (lines 3-4)
EventRecord(id, title, shape) ==
    [id |-> id, title |-> title, time |-> shape.time,
     priority |-> shape.priority, duration_min |-> shape.duration_min]

PlanInit ==
    /\ NotPlanIdle
    /\ pc = "filter"
    /\ now \in RefDates
    /\ \E n \in 0..MaxEvents : \E f \in [1..n -> EventShapes] :
          events = [k \in 1..n |-> EventRecord("id" \o ToString(k), "Event" \o ToString(k), f[k])]
    /\ todays = <<>>
    /\ i = 0
    /\ scheduled = <<>>
    /\ reschedules = <<>>
    /\ nudges = <<>>
    /\ blocks = <<>>
    /\ focus_blocks = <<>>
    /\ cursor = 0
    /\ plan = <<>>
    /\ sched = <<>>

\* lines 69-90 and 144-145: filter, sort, and the loops' initial values
Filter ==
    /\ pc = "filter"
    /\ \E r \in {FilterToday(events, now)} :
         /\ events' = r.caller
         /\ todays' = SortTodays(r.todays)
         /\ pc' = IF r.todays = <<>> THEN "finish" ELSE "deconflict"
    /\ i' = 1
    /\ cursor' = _work_bounds(now).start
    /\ UNCHANGED <<now, scheduled, reschedules, nudges, blocks, focus_blocks, plan, sched>>
    /\ UNCHANGED notPlanVars

\* lines 94-141: one iteration of `for e in todays`
DeconflictStep ==
    /\ pc = "deconflict"
    /\ \E d \in {Deconflict([scheduled |-> scheduled, reschedules |-> reschedules,
                              nudges |-> nudges], todays[i])} :
          /\ scheduled' = d.scheduled
          /\ reschedules' = d.reschedules
          /\ nudges' = d.nudges
    /\ i' = IF i = Len(todays) THEN 1 ELSE i + 1
    /\ pc' = IF i = Len(todays) THEN "build" ELSE "deconflict"
    /\ UNCHANGED <<now, events, todays, blocks, focus_blocks, cursor, plan, sched>>
    /\ UNCHANGED notPlanVars

\* lines 163-179: one iteration of `for e in scheduled`
BuildStep ==
    /\ pc = "build"
    /\ \E b \in {BuildBlock([blocks |-> blocks, focus_blocks |-> focus_blocks,
                              cursor |-> cursor], scheduled[i], now)} :
          /\ blocks' = b.blocks
          /\ focus_blocks' = b.focus_blocks
          /\ cursor' = b.cursor
    /\ i' = IF i = Len(scheduled) THEN 1 ELSE i + 1
    /\ pc' = IF i = Len(scheduled) THEN "finish" ELSE "build"
    /\ UNCHANGED <<now, events, todays, scheduled, reschedules, nudges, plan, sched>>
    /\ UNCHANGED notPlanVars

\* lines 181-211: trailing gap, fallback, return
Return ==
    /\ pc = "finish"
    /\ plan' = <<Finish([scheduled |-> scheduled, reschedules |-> reschedules,
                         nudges |-> nudges],
                        [blocks |-> blocks, focus_blocks |-> focus_blocks,
                         cursor |-> cursor], now)>>
    /\ pc' = "returned"
    /\ UNCHANGED <<now, events, todays, i, scheduled, reschedules, nudges, blocks, focus_blocks, cursor, sched>>
    /\ UNCHANGED notPlanVars

\* cmd_nudge_schedule line 75: build_nudge_schedule(plan) under the default CONFIG
NudgeSchedule ==
    /\ pc = "returned"
    /\ sched' = build_nudge_schedule(plan[1], now, CONFIG)
    /\ pc' = "scheduled"
    /\ UNCHANGED <<now, events, todays, i, scheduled, reschedules, nudges, blocks, focus_blocks, cursor, plan>>
    /\ UNCHANGED notPlanVars

PlanNext == Filter \/ DeconflictStep \/ BuildStep \/ Return \/ NudgeSchedule

Spec == PlanInit /\ [][PlanNext]_vars

\* ======================================================================
\* The CLI (alden_cli.py): one command run, start to finish, against a
\* calendar store that earlier `add` commands have filled.
\* ======================================================================
MaxStore == 3

\* Inputs of the CLI commands
Titles == {"Standup", "Walk"}
CliTimes == {<<0, 19, 0>>, <<0, 19, 10>>}
CliPriorities == {"high", "normal"}
\* Events of today, and an event of another day (which no planner call reads)
CliShapes ==
    [title : Titles, time : CliTimes, priority : CliPriorities]
        \cup [title : Titles, time : {<<1, 9, 0>>}, priority : {"normal"}]
NewFields ==
    {[NoFields EXCEPT !.time = << <<0, 19, 10>> >>],
     [NoFields EXCEPT !.priority = <<"high">>, !.duration_min = <<30>>],
     [NoFields EXCEPT !.title = <<"Walk">>]}

\* The store after `add` commands with these arguments (ids as uuid4 hands them out)
RECURSIVE AddAll(_, _)
AddAll(shapes, n) ==
    IF n = 0 THEN <<>>
    ELSE add_event(AddAll(shapes, n - 1), "id" \o ToString(n), shapes[n].title, shapes[n].time,
                   "general", shapes[n].priority, DefaultDuration).file

StoredEvents(file) == IF file = <<>> THEN <<>> ELSE file[1]

Keys(file) ==
    {StoredEvents(file)[k].id : k \in 1..Len(StoredEvents(file))} \cup Titles \cup {"Nothing"}

CliInit ==
    /\ now \in RefDates
    /\ NotCliIdle
    /\ cli_pc = "ready"
    /\ \E n \in 0..MaxStore : \E shapes \in [1..n -> CliShapes] :
          /\ calendar_file = AddAll(shapes, n)
          /\ uuid = n + 1
    /\ before = StoredEvents(calendar_file)
    /\ cmd = [name |-> "none"]

\* cmd_add lines 30-39
CmdAdd ==
    /\ cli_pc = "ready"
    /\ \E shape \in CliShapes :
       \E a \in {add_event(calendar_file, "id" \o ToString(uuid), shape.title, shape.time,
                           "general", shape.priority, DefaultDuration)} :
             /\ calendar_file' = a.file
             /\ cmd' = [name |-> "add", ev |-> a.ev]
    /\ uuid' = uuid + 1
    /\ cli_pc' = "done"
    /\ UNCHANGED <<before, notCliVars>>

\* cmd_update lines 167-179
CmdUpdate ==
    /\ cli_pc = "ready"
    /\ \E key \in Keys(calendar_file), fields \in NewFields :
       \E u \in {update_event(calendar_file, key, fields)} :
             /\ calendar_file' = u.file
             /\ cmd' = [name |-> "update", key |-> key, fields |-> fields, updated |-> u.updated]
    /\ cli_pc' = "done"
    /\ UNCHANGED <<uuid, before, notCliVars>>

\* cmd_delete lines 162-164
CmdDelete ==
    /\ cli_pc = "ready"
    /\ \E key \in Keys(calendar_file) :
       \E d \in {delete_event(calendar_file, key)} :
             /\ calendar_file' = d.file
             /\ cmd' = [name |-> "delete", key |-> key, changed |-> d.changed]
    /\ cli_pc' = "done"
    /\ UNCHANGED <<uuid, before, notCliVars>>

\* cmd_plan lines 68-70: the list handed to plan_day, as plan_day leaves it,
\* and the plan printed
cmd_plan(file, now_) ==
    LET t == get_today_events(file, now_)
    IN [file |-> t.file, passed |-> FilterToday(t.events, now_).caller,
        plan |-> plan_day(t.events, now_)]

CmdPlan ==
    /\ cli_pc = "ready"
    /\ \E c \in {cmd_plan(calendar_file, now)} :
          /\ calendar_file' = c.file
          /\ cmd' = [name |-> "plan", passed |-> c.passed, plan |-> c.plan]
    /\ cli_pc' = "done"
    /\ UNCHANGED <<uuid, before, notCliVars>>

\* cmd_plan_commit with line 87 reading the `enabled` key alone
cmd_plan_commit_FocusOnEnabled(file, next_uuid, now_, p, enable_writeback, materialize_focus, wb_cfg) ==
    LET do_resched == enable_writeback \/ wb_cfg.enabled
        do_focus == materialize_focus \/ wb_cfg.enabled
        r == IF do_resched THEN apply_reschedules(file, p.reschedules)
             ELSE [file |-> file, msgs |-> <<>>]
        f == IF do_focus
             THEN materialize_focus_blocks(r.file, next_uuid, p.focus_blocks, now_, wb_cfg.focus_block)
             ELSE [file |-> r.file, uuid |-> next_uuid, msgs |-> <<>>]
    IN IF ~(do_resched \/ do_focus)
       THEN [file |-> file, uuid |-> next_uuid, ran_reschedules |-> FALSE,
             ran_focus |-> FALSE, resched_count |-> 0, focus_count |-> 0]
       ELSE [file |-> f.file, uuid |-> f.uuid, ran_reschedules |-> do_resched,
             ran_focus |-> do_focus, resched_count |-> Len(r.msgs), focus_count |-> Len(f.msgs)]

\* cmd_plan_commit lines 85-118: the write-back of the plan `p` that lines
\* 82-83 computed and printed; `file` is the store as get_today_events left
\* it and wb_cfg is CONFIG["write_back"]
cmd_plan_commit(file, next_uuid, now_, p, enable_writeback, materialize_focus, wb_cfg) ==
    LET do_resched == enable_writeback \/ wb_cfg.enabled
        do_focus == materialize_focus \/ (wb_cfg.enabled /\ wb_cfg.materialize_focus_blocks)
        r == IF do_resched THEN apply_reschedules(file, p.reschedules)
             ELSE [file |-> file, msgs |-> <<>>]
        f == IF do_focus
             THEN materialize_focus_blocks(r.file, next_uuid, p.focus_blocks, now_, wb_cfg.focus_block)
             ELSE [file |-> r.file, uuid |-> next_uuid, msgs |-> <<>>]
    IN IF ~(do_resched \/ do_focus)
       THEN [file |-> file, uuid |-> next_uuid, ran_reschedules |-> FALSE,
             ran_focus |-> FALSE, resched_count |-> 0, focus_count |-> 0]
       ELSE [file |-> f.file, uuid |-> f.uuid, ran_reschedules |-> do_resched,
             ran_focus |-> do_focus, resched_count |-> Len(r.msgs), focus_count |-> Len(f.msgs)]

\* cmd_plan_commit lines 81-118
CmdPlanCommit ==
    /\ cli_pc = "ready"
    /\ \E t \in {get_today_events(calendar_file, now)} :
       \E p \in {plan_day(t.events, now)} :
       \E enable_writeback, materialize_focus, enabled, materialize \in BOOLEAN :
       \E c \in {cmd_plan_commit(t.file, uuid, now, p, enable_writeback, materialize_focus,
                                 [CONFIG.write_back EXCEPT
                                     !.enabled = enabled,
                                     !.materialize_focus_blocks = materialize])} :
             /\ calendar_file' = c.file
             /\ uuid' = c.uuid
             /\ cmd' = [name |-> "plan-commit", enable_writeback |-> enable_writeback,
                        materialize_focus |-> materialize_focus, enabled |-> enabled,
                        materialize |-> materialize, plan |-> p,
                        ran_reschedules |-> c.ran_reschedules, ran_focus |-> c.ran_focus,
                        resched_count |-> c.resched_count, focus_count |-> c.focus_count]
    /\ cli_pc' = "done"
    /\ UNCHANGED <<before, notCliVars>>

\* Proposal lists handed to apply_reschedules: the plan's, the same keyed by
\* title only (events that carry no id), and the same without a new start
ProposalLists(file, now_) ==
    LET rs == plan_day(get_today_events(file, now_).events, now_).reschedules
    IN {rs,
        [k \in 1..Len(rs) |-> [rs[k] EXCEPT !.id = ""]],
        [k \in 1..Len(rs) |-> IF k = 1 THEN [rs[k] EXCEPT !.new_start = <<>>] ELSE rs[k]]}

\* core/writeback apply_reschedules, first call with a list
ApplyReschedules ==
    /\ cli_pc = "ready"
    /\ \E rs \in ProposalLists(calendar_file, now) :
       \E a \in {apply_reschedules(calendar_file, rs)} :
             /\ calendar_file' = a.file
             /\ cmd' = [name |-> "apply_reschedules", rs |-> rs, msgs |-> a.msgs,
                        once |-> StoredEvents(a.file)]
    /\ cli_pc' = "applied_once"
    /\ UNCHANGED <<uuid, before, notCliVars>>

\* core/writeback apply_reschedules, second call with the same list
ApplyReschedulesAgain ==
    /\ cli_pc = "applied_once"
    /\ \E a \in {apply_reschedules(calendar_file, cmd.rs)} :
          /\ calendar_file' = a.file
          /\ cmd' = [cmd EXCEPT !.msgs = a.msgs]
    /\ cli_pc' = "applied_twice"
    /\ UNCHANGED <<uuid, before, notCliVars>>

CliNext ==
    \/ CmdAdd
    \/ CmdUpdate
    \/ CmdDelete
    \/ CmdPlan
    \/ CmdPlanCommit
    \/ ApplyReschedules
    \/ ApplyReschedulesAgain

SpecCli == CliInit /\ [][CliNext]_vars

\* ----------------------------------------------------------------------
\* Claims about the planner run
\* ----------------------------------------------------------------------
DayStart == _work_bounds(now).start
DayEnd == _work_bounds(now).end

\* C1: the blocks plan_day returns are ordered by start time and pairwise
\* non-overlapping: each block starts at or after the end of the block
\* before it (and not before that block's start).
C1_BlocksOrderedNonOverlapping ==
    plan # <<>> =>
        \A k \in 1..(Len(plan[1].blocks) - 1) :
            /\ plan[1].blocks[k].start <= plan[1].blocks[k + 1].start
            /\ plan[1].blocks[k].end <= plan[1].blocks[k + 1].start

\* C2: when the candidate starts before the end of the last scheduled event
\* and has equal or lower priority, the scheduled events stay as they are, the
\* candidate is appended with its start at the last event's end and its
\* duration kept, and exactly one Reschedule and one nudge, both for the
\* candidate, are emitted.
C2_Case ==
    /\ pc = "deconflict"
    /\ scheduled # <<>>
    /\ todays[i]._start < scheduled[Len(scheduled)]._end
    /\ _priority_weight(todays[i].priority) >= _priority_weight(scheduled[Len(scheduled)].priority)

C2_Effect ==
    LET e == todays[i]
        last == scheduled[Len(scheduled)]
        n == Len(scheduled)
        r == Len(reschedules)
    IN /\ Len(scheduled') = n + 1
       /\ SubSeq(scheduled', 1, n) = scheduled
       /\ scheduled'[n + 1].id = e.id
       /\ scheduled'[n + 1]._start = last._end
       /\ scheduled'[n + 1]._end - scheduled'[n + 1]._start = e._end - e._start
       /\ Len(reschedules') = r + 1
       /\ SubSeq(reschedules', 1, r) = reschedules
       /\ reschedules'[r + 1].id = e.id
       /\ reschedules'[r + 1].old_start = isoformat(e._start)
       /\ reschedules'[r + 1].new_start = isoformat(last._end)
       /\ reschedules'[r + 1].duration_min = e._end - e._start
       /\ Len(nudges') = Len(nudges) + 1
       /\ SubSeq(nudges', 1, Len(nudges)) = nudges
       /\ nudges'[Len(nudges) + 1].kind = "rescheduled"
       /\ nudges'[Len(nudges) + 1].title = e.title
       /\ nudges'[Len(nudges) + 1].to = last._end % MinutesPerDay

C2_CandidatePushedAfterLast == [][C2_Case => C2_Effect]_vars

C2_Witness ==
    /\ pc \in {"deconflict", "build"}
    /\ Len(scheduled) >= 2
    /\ Len(nudges) = 1
    /\ ~nudges[1].high
    /\ scheduled[2]._start = scheduled[1]._end
    /\ scheduled[2]._pwt > scheduled[1]._pwt

\* C3: on a day with at least one event a gap block is emitted for the
\* interval between the cursor and the next event (or the work-window end)
\* if and only if that interval is at least 30 minutes; a gap block is titled
\* "Open Focus Block", has priority normal before an event and low after the
\* last event, and focus_blocks holds exactly the (start, end) pairs of the
\* gap blocks, in the same order.
IsGap(b) == b.source = "gap"

GapPairs(bs) ==
    LET g == SelectSeq(bs, IsGap)
    IN [k \in 1..Len(g) |-> [start |-> g[k].start, end |-> g[k].end]]

C3_GapBeforeEvent ==
    pc = "build" =>
        LET until == Max2(scheduled[i]._start, DayStart)
            n == Len(blocks)
            added == Len(blocks') > n /\ blocks'[n + 1].source = "gap"
        IN /\ added <=> (until - cursor >= 30)
           /\ added => /\ blocks'[n + 1] =
                            [start |-> cursor % MinutesPerDay, end |-> until % MinutesPerDay,
                             title |-> "Open Focus Block", priority |-> "normal",
                             source |-> "gap"]
                       /\ \A k \in (n + 2)..Len(blocks') : blocks'[k].source = "event"
           /\ ~added => \A k \in (n + 1)..Len(blocks') : blocks'[k].source = "event"
           /\ SubSeq(blocks', 1, n) = blocks
           /\ focus_blocks' = GapPairs(blocks')

C3_GapAfterLastEvent ==
    (pc = "finish" /\ scheduled # <<>>) =>
        LET n == Len(blocks)
            out == plan'[1].blocks
            added == Len(out) > n
        IN /\ added <=> (DayEnd - cursor >= 30)
           /\ added => out = Append(blocks,
                            [start |-> cursor % MinutesPerDay, end |-> DayEnd % MinutesPerDay,
                             title |-> "Open Focus Block", priority |-> "low",
                             source |-> "gap"])
           /\ ~added => out = blocks
           /\ plan'[1].focus_blocks = GapPairs(out)

C3_GapBlocksIffThirtyMinutes == [][C3_GapBeforeEvent /\ C3_GapAfterLastEvent]_vars

C3_Witness ==
    /\ plan # <<>>
    /\ scheduled # <<>>
    /\ \E k \in 1..Len(plan[1].blocks) :
          plan[1].blocks[k].source = "gap" /\ plan[1].blocks[k].priority = "normal"
    /\ \E k \in 1..Len(plan[1].blocks) :
          plan[1].blocks[k].source = "gap" /\ plan[1].blocks[k].priority = "low"
    /\ Len(plan[1].focus_blocks) = 2

\* C4: when no input event has a parseable start time on the reference date
\* plan_day returns exactly the four template blocks, exactly one nudge, and
\* empty reschedules and focus_blocks; when some event is on the reference
\* date the template is not what is returned.
OnRefDate(e) ==
    /\ Len(e.time) = 3
    /\ e.time[1] = date(now)
    /\ e.time[2] \in 0..23
    /\ e.time[3] \in 0..59

IsTemplate(bs) ==
    /\ Len(bs) = 4
    /\ bs[1].start = 9 * 60 /\ bs[1].end = 11 * 60
    /\ bs[1].title = "Deep Work" /\ bs[1].priority = "high"
    /\ bs[2].start = 11 * 60 /\ bs[2].end = 12 * 60
    /\ bs[2].title = "Admin / Messages" /\ bs[2].priority = "normal"
    /\ bs[3].start = 13 * 60 /\ bs[3].end = 15 * 60
    /\ bs[3].title = "Project Block" /\ bs[3].priority = "normal"
    /\ bs[4].start = 15 * 60 + 30 /\ bs[4].end = 17 * 60
    /\ bs[4].title = "Light Tasks" /\ bs[4].priority = "low"

C4_TemplateIffNoEvents ==
    plan # <<>> =>
        IF \A k \in 1..Len(events) : ~OnRefDate(events[k])
        THEN /\ IsTemplate(plan[1].blocks)
             /\ Len(plan[1].nudges) = 1
             /\ plan[1].reschedules = <<>>
             /\ plan[1].focus_blocks = <<>>
        ELSE ~IsTemplate(plan[1].blocks)

C4_Witness ==
    /\ plan # <<>>
    /\ Len(events) = 2
    /\ \A k \in 1..Len(events) : ~OnRefDate(events[k])
    /\ events[1].time # events[2].time
    /\ IsTemplate(plan[1].blocks)

\* C10: the schedule build_nudge_schedule returns for a plan of plan_day is
\* sorted ascending by time, holds a prep entry for every event block at its
\* start minus 10 minutes (high priority) or minus 5 minutes (otherwise) and a
\* wrap entry for every block at its end minus 2 minutes, and its single
\* day_wrap entry is not earlier than any other entry.
AtMinutes(n) == n.at[1] * MinutesPerDay + n.at[2] * 60 + n.at[3]

OnDay(hhmm) == date(now) * MinutesPerDay + hhmm

C10_Sorted == \A k \in 1..(Len(sched) - 1) : AtMinutes(sched[k]) <= AtMinutes(sched[k + 1])

C10_Prep ==
    \A k \in 1..Len(plan[1].blocks) :
        LET b == plan[1].blocks[k] IN
        b.source = "event" =>
            \E n \in 1..Len(sched) :
                /\ sched[n].type = "prep"
                /\ sched[n].title = b.title
                /\ AtMinutes(sched[n]) = OnDay(b.start) - (IF b.priority = "high" THEN 10 ELSE 5)

C10_Wrap ==
    \A k \in 1..Len(plan[1].blocks) :
        LET b == plan[1].blocks[k] IN
        \E n \in 1..Len(sched) :
            /\ sched[n].type = "wrap"
            /\ sched[n].title = b.title
            /\ AtMinutes(sched[n]) = OnDay(b.end) - 2

C10_DayWrapLast ==
    /\ Cardinality({n \in 1..Len(sched) : sched[n].type = "day_wrap"}) = 1
    /\ \A n, m \in 1..Len(sched) :
          sched[n].type = "day_wrap" => AtMinutes(sched[m]) <= AtMinutes(sched[n])

C10_NudgeScheduleOrdered ==
    pc = "scheduled" => C10_Sorted /\ C10_Prep /\ C10_Wrap /\ C10_DayWrapLast

C10_SortedPrepWrap ==
    pc = "scheduled" => C10_Sorted /\ C10_Prep /\ C10_Wrap

\* ======================================================================
\* The store file: one process runs a store write (add_event, update_event
\* or delete_event) down to the file operations of save_calendar while
\* another process runs load_calendar.
\* ======================================================================
MaxFileEvents == 2

FileShapes == [title : Titles, time : {<<0, 19, 0>>}, priority : {"normal"}]

\* The text json.dump writes for a list, as the pieces f.write receives
json_dump(evs) ==
    <<[tok |-> "[", ev |-> <<>>]>>
        \o [k \in 1..Len(evs) |-> [tok |-> "event", ev |-> <<evs[k]>>]]
        \o <<[tok |-> "]", ev |-> <<>>]>>

\* json.load of a file's text: <<list>>, or <<>> when it raises
\* JSONDecodeError (an empty or cut-off text)
json_load(text) ==
    IF /\ Len(text) >= 2
       /\ text[1].tok = "["
       /\ text[Len(text)].tok = "]"
       /\ \A k \in 2..(Len(text) - 1) : text[k].tok = "event"
    THEN <<[k \in 1..(Len(text) - 2) |-> text[k + 1].ev[1]]>>
    ELSE <<>>

FileInit ==
    /\ now \in RefDates
    /\ NotFileIdle
    /\ \E n \in 0..MaxFileEvents : \E shapes \in [1..n -> FileShapes] :
          /\ disk = json_dump(StoredEvents(AddAll(shapes, n)))
          /\ f_before = StoredEvents(AddAll(shapes, n))
          /\ f_after = StoredEvents(AddAll(shapes, n))
    /\ w_pc = "idle"
    /\ w_events = <<>>
    /\ w_buf = <<>>
    /\ r_pc = "idle"
    /\ r_seen = <<>>

\* The writer up to its call of save_calendar: it has loaded the file and
\* holds the list to save (w_pc = "save"), or returns without saving
Begin(saves, new_events) ==
    /\ w_pc' = IF saves THEN "save" ELSE "done"
    /\ w_events' = IF saves THEN new_events ELSE <<>>
    /\ f_after' = IF saves THEN new_events ELSE f_after
    /\ UNCHANGED <<disk, w_buf, r_pc, r_seen, f_before, notFileVars>>

\* add_event lines 32-44
W_Add ==
    /\ w_pc = "idle"
    /\ \E shape \in FileShapes :
       \E a \in {add_event(json_load(disk), "new", shape.title, shape.time, "general",
                           shape.priority, DefaultDuration)} :
          Begin(TRUE, StoredEvents(a.file))

\* update_event lines 90-103
W_Update ==
    /\ w_pc = "idle"
    /\ \E key \in Keys(json_load(disk)), fields \in NewFields :
       \E u \in {update_event(json_load(disk), key, fields)} :
          Begin(u.updated # <<>>, StoredEvents(u.file))

\* delete_event lines 80-84
W_Delete ==
    /\ w_pc = "idle"
    /\ \E key \in Keys(json_load(disk)) :
       \E d \in {delete_event(json_load(disk), key)} :
          Begin(d.changed, StoredEvents(d.file))

\* save_calendar line 20: open(CALENDAR_FILE, "w") truncates the file
W_Open ==
    /\ w_pc = "save"
    /\ disk' = <<>>
    /\ w_buf' = json_dump(w_events)
    /\ w_pc' = "open"
    /\ UNCHANGED <<w_events, r_pc, r_seen, f_before, f_after, notFileVars>>

\* save_calendar line 21: json.dump fills the file object's buffer, which
\* goes to the file whenever it is full
W_Flush ==
    /\ w_pc = "open"
    /\ \E n \in 1..(Len(w_buf) - 1) :
          /\ disk' = disk \o SubSeq(w_buf, 1, n)
          /\ w_buf' = SubSeq(w_buf, n + 1, Len(w_buf))
    /\ UNCHANGED <<w_pc, w_events, r_pc, r_seen, f_before, f_after, notFileVars>>

\* save_calendar, leaving the `with` block: the rest of the buffer is written
\* and the file closed
W_Close ==
    /\ w_pc = "open"
    /\ disk' = disk \o w_buf
    /\ w_buf' = <<>>
    /\ w_pc' = "done"
    /\ UNCHANGED <<w_events, r_pc, r_seen, f_before, f_after, notFileVars>>

\* load_calendar lines 13-16 in the reading process: the file exists, and
\* json.load parses what it holds at this moment
R_Read ==
    /\ r_pc = "idle"
    /\ r_seen' = json_load(disk)
    /\ r_pc' = "done"
    /\ UNCHANGED <<disk, w_pc, w_events, w_buf, f_before, f_after, notFileVars>>

FileNext ==
    \/ W_Add
    \/ W_Update
    \/ W_Delete
    \/ W_Open
    \/ W_Flush
    \/ W_Close
    \/ R_Read

SpecFile == FileInit /\ [][FileNext]_vars

\* ----------------------------------------------------------------------
\* Claims about the CLI run
\* ----------------------------------------------------------------------
Stored == StoredEvents(calendar_file)

WithTitle(evs, title) == {k \in 1..Len(evs) : evs[k].title = title}

\* C5: with several events of the same title, update(title, fields) changes
\* only the first of them in store order, delete(title) removes every one of
\* them, and both leave the events of other titles as they were.
C5_Update ==
    (cli_pc = "done" /\ cmd.name = "update" /\ cmd.key \in Titles
        /\ WithTitle(before, cmd.key) # {}) =>
        LET first == CHOOSE k \in WithTitle(before, cmd.key) :
                        \A j \in WithTitle(before, cmd.key) : k <= j
        IN /\ Len(Stored) = Len(before)
           /\ \A k \in 1..Len(before) : k # first => Stored[k] = before[k]
           /\ Stored[first].id = before[first].id
           /\ cmd.fields.time # <<>> => Stored[first].time = cmd.fields.time[1]
           /\ cmd.fields.title # <<>> => Stored[first].title = cmd.fields.title[1]
           /\ cmd.fields.priority # <<>> => Stored[first].priority = cmd.fields.priority[1]

C5_Delete ==
    (cli_pc = "done" /\ cmd.name = "delete" /\ cmd.key \in Titles) =>
        LET kept == {k \in 1..Len(before) : before[k].title # cmd.key}
        IN /\ WithTitle(Stored, cmd.key) = {}
           /\ Len(Stored) = Cardinality(kept)
           /\ \A k \in kept :
                 Stored[Cardinality({j \in kept : j <= k})] = before[k]

C5_UpdateFirstDeleteAll == C5_Update /\ C5_Delete

C5_Witness ==
    /\ cli_pc = "done"
    /\ cmd.name = "update"
    /\ cmd.key \in Titles
    /\ Cardinality(WithTitle(before, cmd.key)) >= 2
    /\ Stored # before

C5_WitnessDelete ==
    /\ cli_pc = "done"
    /\ cmd.name = "delete"
    /\ Cardinality(WithTitle(before, cmd.key)) >= 2
    /\ Len(Stored) = 1

\* The store event a proposal resolves to: the first one its identifier, or
\* else its title, matches (0: none, or the proposal is skipped)
Target(r) ==
    LET eid == IF r.id # "" THEN r.id ELSE r.title
    IN IF eid = "" \/ r.new_start = <<>> THEN 0 ELSE FirstMatch(before, eid)

Applied == cli_pc \in {"applied_once", "applied_twice"}

C7_SameAsOnce ==
    Applied => /\ Len(Stored) = Len(before)
               /\ Stored = cmd.once

\* C7 as stated: a second apply_reschedules call with the same list leaves the
\* store as the first call left it, the number of events is unchanged, and
\* after either call every targeted event starts at its proposal's new_start.
C7_EveryProposalHolds ==
    /\ C7_SameAsOnce
    /\ Applied =>
          \A k \in 1..Len(cmd.rs) :
              Target(cmd.rs[k]) # 0 => Stored[Target(cmd.rs[k])].time = cmd.rs[k].new_start

\* C7 amended: a second apply_reschedules call with the same list leaves the
\* store as the first call left it, the number of events is unchanged, and
\* after either call every targeted event starts at the new_start of the last
\* proposal of the list that targets it.
C7_LastProposalHolds ==
    /\ C7_SameAsOnce
    /\ Applied =>
          \A k \in 1..Len(cmd.rs) :
              (/\ Target(cmd.rs[k]) # 0
               /\ \A j \in (k + 1)..Len(cmd.rs) : Target(cmd.rs[j]) # Target(cmd.rs[k]))
                  => Stored[Target(cmd.rs[k])].time = cmd.rs[k].new_start

C7_Witness ==
    /\ cli_pc = "applied_twice"
    /\ Stored # before
    /\ \E k, j \in 1..Len(cmd.rs) :
          /\ k < j
          /\ Target(cmd.rs[k]) # 0
          /\ Target(cmd.rs[k]) = Target(cmd.rs[j])
          /\ cmd.rs[k].new_start # cmd.rs[j].new_start

\* The events the store held before the command, as it holds them now
Kept == SubSeq(Stored, 1, Len(before))

PositiveFocusBlocks(p) ==
    {k \in 1..Len(p.focus_blocks) : p.focus_blocks[k]["end"] > p.focus_blocks[k].start}

\* C8: plan-commit applies the reschedules exactly when --enable-writeback is
\* given or write_back.enabled is true, materializes the focus blocks exactly
\* when --materialize-focus is given or write_back.enabled and
\* write_back.materialize_focus_blocks are both true, and leaves the store
\* unchanged when neither holds.
C8_WritebackGating ==
    (cli_pc = "done" /\ cmd.name = "plan-commit") =>
        LET want_resched == cmd.enable_writeback \/ cmd.enabled
            want_focus == cmd.materialize_focus \/ (cmd.enabled /\ cmd.materialize)
        IN /\ cmd.ran_reschedules <=> want_resched
           /\ cmd.ran_focus <=> want_focus
           /\ Len(Stored) >= Len(before)
           /\ Kept = IF want_resched
                     THEN StoredEvents(apply_reschedules(<<before>>, cmd.plan.reschedules).file)
                     ELSE before
           /\ Len(Stored) - Len(before) =
                 IF want_focus THEN Cardinality(PositiveFocusBlocks(cmd.plan)) ELSE 0
           /\ \A k \in (Len(before) + 1)..Len(Stored) :
                 Stored[k].title = CONFIG.write_back.focus_block.title
           /\ ~(want_resched \/ want_focus) => Stored = before

C8_Witness ==
    /\ cli_pc = "done"
    /\ cmd.name = "plan-commit"
    /\ cmd.enable_writeback /\ ~cmd.materialize_focus /\ ~cmd.enabled /\ cmd.materialize
    /\ cmd.plan.focus_blocks # <<>>
    /\ Stored # before
    /\ Len(Stored) = Len(before)

C8_WitnessConfigOnly ==
    /\ cli_pc = "done"
    /\ cmd.name = "plan-commit"
    /\ ~cmd.enable_writeback /\ ~cmd.materialize_focus /\ cmd.enabled /\ ~cmd.materialize
    /\ cmd.plan.focus_blocks # <<>>
    /\ Stored # before

\* C9: the plan command leaves the stored event list as it was, and plan_day
\* leaves the event records it is handed as they were.
C9_PlanTouchesNothing ==
    (cli_pc = "done" /\ cmd.name = "plan") =>
        /\ Stored = before
        /\ cmd.passed = get_today_events(<<before>>, now).events

C9_Witness ==
    /\ cli_pc = "done"
    /\ cmd.name = "plan"
    /\ Len(cmd.passed) >= 2
    /\ Len(before) > Len(cmd.passed)
    /\ cmd.plan.reschedules # <<>>
    /\ cmd.plan.focus_blocks # <<>>

\* ----------------------------------------------------------------------
\* Claims about the store file
\* ----------------------------------------------------------------------
\* C6: a reader running while another process writes the store gets either
\* the complete event list from before the write or the complete list from
\* after it, never an empty or cut-off file.
C6_ReaderSeesWholeList ==
    r_pc = "done" => (r_seen = <<f_before>> \/ r_seen = <<f_after>>)

\* ======================================================================
\* utils/persistance: one save_json(path, data) call, statement by
\* statement, on a path whose lock marker may have been left behind by a
\* holder that never releases it.  Time is counted in units of `poll`.
\* ======================================================================
\* _acquire_lock's defaults (line 15): timeout 3.0 s and poll 0.05 s
poll == 1
timeout == 60

\* A sleep(poll) lasts at least `poll`, here up to MaxSleep units
MaxSleep == 2

\* The clock is read up to here: every later reading is past `timeout` too
ElapsedCap == timeout + MaxSleep

LockInit ==
    /\ NotLockIdle
    /\ lock_exists \in BOOLEAN
    /\ stale = lock_exists
    /\ l_pc = "call"
    /\ elapsed = 0
    /\ unlinks = 0
    /\ l_tmp = <<>>
    /\ l_file = <<"old">>

\* _acquire_lock lines 16-17: start = time.time()
L_Start ==
    /\ l_pc = "call"
    /\ elapsed' = 0
    /\ l_pc' = "check"
    /\ UNCHANGED <<lock_exists, stale, unlinks, l_tmp, l_file, notLockVars>>

\* line 18: while lock.exists()
L_Check ==
    /\ l_pc = "check"
    /\ l_pc' = IF lock_exists THEN "expired" ELSE "touch"
    /\ UNCHANGED <<lock_exists, stale, elapsed, unlinks, l_tmp, l_file, notLockVars>>

\* line 19 with the comparison never true: the caller keeps polling
L_Expired_NeverExpires ==
    /\ l_pc = "expired"
    /\ l_pc' = "sleep"
    /\ UNCHANGED <<lock_exists, stale, elapsed, unlinks, l_tmp, l_file, notLockVars>>

\* line 19: if time.time() - start > timeout
L_Expired ==
    /\ l_pc = "expired"
    /\ l_pc' = IF elapsed > timeout THEN "unlink" ELSE "sleep"
    /\ UNCHANGED <<lock_exists, stale, elapsed, unlinks, l_tmp, l_file, notLockVars>>

\* lines 21-24: lock.unlink() removes the marker, or raises (the file system
\* refuses) and the caller raises TimeoutError
L_Unlink ==
    /\ l_pc = "unlink"
    /\ \E ok \in BOOLEAN :
          /\ lock_exists' = IF ok THEN FALSE ELSE lock_exists
          /\ unlinks' = IF ok THEN unlinks + 1 ELSE unlinks
          /\ l_pc' = IF ok THEN "sleep" ELSE "failed"
    /\ UNCHANGED <<stale, elapsed, l_tmp, l_file, notLockVars>>

\* line 25: time.sleep(poll)
L_Sleep ==
    /\ l_pc = "sleep"
    /\ \E d \in poll..MaxSleep : elapsed' = Min2(elapsed + d, ElapsedCap)
    /\ l_pc' = "check"
    /\ UNCHANGED <<lock_exists, stale, unlinks, l_tmp, l_file, notLockVars>>

\* line 26: lock.touch(exist_ok=True)
L_Touch ==
    /\ l_pc = "touch"
    /\ lock_exists' = TRUE
    /\ l_pc' = "write"
    /\ UNCHANGED <<stale, elapsed, unlinks, l_tmp, l_file, notLockVars>>

\* save_json lines 51-53: the data goes to the temp file
L_Write ==
    /\ l_pc = "write"
    /\ l_tmp' = <<"new">>
    /\ l_pc' = "replace"
    /\ UNCHANGED <<lock_exists, stale, elapsed, unlinks, l_file, notLockVars>>

\* save_json line 54: os.replace(tmp, p)
L_Replace ==
    /\ l_pc = "replace"
    /\ l_file' = l_tmp
    /\ l_tmp' = <<>>
    /\ l_pc' = "release"
    /\ UNCHANGED <<lock_exists, stale, elapsed, unlinks, notLockVars>>

\* save_json line 56, _release_lock lines 29-35
L_Release ==
    /\ l_pc = "release"
    /\ lock_exists' = FALSE
    /\ l_pc' = "done"
    /\ UNCHANGED <<stale, elapsed, unlinks, l_tmp, l_file, notLockVars>>

LockNext ==
    \/ L_Start
    \/ L_Check
    \/ L_Expired
    \/ L_Unlink
    \/ L_Sleep
    \/ L_Touch
    \/ L_Write
    \/ L_Replace
    \/ L_Release

\* The calling process keeps running: every statement it has reached is
\* executed, and sleep returns
SpecLock == LockInit /\ [][LockNext]_vars /\ WF_vars(LockNext)

\* C11: a save that finds a lock marker nobody will release does not wait
\* for ever: the marker is force-removed only once more than 3 seconds have
\* passed since the call began, it is force-removed at most once, the check
\* that follows the removal acquires the lock, and the save reaches its
\* write or fails with the lock-timeout error.
C11_StaleLockBroken ==
    /\ [](l_pc = "unlink" => elapsed > timeout)
    /\ [](unlinks <= 1)
    /\ []((stale /\ l_pc = "write") => unlinks = 1)
    /\ [][(l_pc = "check" /\ unlinks = 1) => l_pc' = "touch"]_vars
    /\ ((stale /\ l_pc = "call") ~> (l_pc \in {"write", "failed"}))

C11_Witness ==
    /\ stale
    /\ unlinks = 1
    /\ elapsed > timeout
    /\ l_pc = "done"
    /\ l_file = <<"new">>

C11_WitnessFailed ==
    /\ stale
    /\ l_pc = "failed"
    /\ lock_exists

\* ======================================================================
\* core/audit and learning/patterns: block outcomes are appended to the
\* audit log and learn_preferences is run on it.  A title or an outcome is
\* the sequence of its characters; a planned_start "HH:MM" is <<hh, mm>>.
\* ======================================================================
MaxLog == 3

\* str.lower(), on the letters A to Z
LowerChar(c) ==
    CASE c = "A" -> "a" [] c = "B" -> "b" [] c = "C" -> "c" [] c = "D" -> "d"
      [] c = "E" -> "e" [] c = "F" -> "f" [] c = "G" -> "g" [] c = "H" -> "h"
      [] c = "I" -> "i" [] c = "J" -> "j" [] c = "K" -> "k" [] c = "L" -> "l"
      [] c = "M" -> "m" [] c = "N" -> "n" [] c = "O" -> "o" [] c = "P" -> "p"
      [] c = "Q" -> "q" [] c = "R" -> "r" [] c = "S" -> "s" [] c = "T" -> "t"
      [] c = "U" -> "u" [] c = "V" -> "v" [] c = "W" -> "w" [] c = "X" -> "x"
      [] c = "Y" -> "y" [] c = "Z" -> "z"
      [] OTHER -> c

lower(s) == [k \in 1..Len(s) |-> LowerChar(s[k])]

\* `sub in s` for strings
Contains(s, sub) ==
    \E k \in 0..(Len(s) - Len(sub)) : SubSeq(s, k + 1, k + Len(sub)) = sub

\* hhmm_to_minutes lines 19-21
hhmm_to_minutes(hhmm) == hhmm[1] * 60 + hhmm[2]

\* minutes_to_hhmm lines 24-27
minutes_to_hhmm(minutes) == <<minutes \div 60, minutes % 60>>

\* learn_preferences lines 55-60 with the two tests in the other order
PriorityOfTitle_LowFirst(title) ==
    IF Contains(title, <<"e", "r", "r", "a", "n", "d">>)
          \/ Contains(title, <<"l", "i", "g", "h", "t">>) THEN "low"
    ELSE IF Contains(title, <<"d", "e", "e", "p", " ", "w", "o", "r", "k">>)
          \/ Contains(title, <<"f", "o", "c", "u", "s">>) THEN "high"
    ELSE "normal"

\* learn_preferences lines 55-60, on the lower-cased title
PriorityOfTitle(title) ==
    IF Contains(title, <<"d", "e", "e", "p", " ", "w", "o", "r", "k">>)
          \/ Contains(title, <<"f", "o", "c", "u", "s">>) THEN "high"
    ELSE IF Contains(title, <<"e", "r", "r", "a", "n", "d">>)
          \/ Contains(title, <<"l", "i", "g", "h", "t">>) THEN "low"
    ELSE "normal"

\* learn_preferences lines 46-62: the minutes the loop appends to bucket `pr`
RECURSIVE Bucket(_, _)
Bucket(log, pr) ==
    IF log = <<>> THEN <<>>
    ELSE LET rec == Head(log)
             outcome == lower(rec.outcome)
             title == lower(rec.title)
         IN IF /\ outcome \in {<<"d", "o", "n", "e">>, <<"p", "a", "r", "t", "i", "a", "l">>}
               /\ rec.planned_start # <<>>
               /\ PriorityOfTitle(title) = pr
            THEN <<hhmm_to_minutes(rec.planned_start[1])>> \o Bucket(Tail(log), pr)
            ELSE Bucket(Tail(log), pr)

RECURSIVE sum(_)
sum(minutes_list) ==
    IF minutes_list = <<>> THEN 0 ELSE Head(minutes_list) + sum(Tail(minutes_list))

\* learn_preferences lines 44-75: the dict written to PREF_PATH and returned
learn_preferences(log) ==
    [by_priority |->
        [pr \in {b \in {"high", "normal", "low"} : Bucket(log, b) # <<>>} |->
            [preferred_start |-> minutes_to_hhmm(sum(Bucket(log, pr)) \div Len(Bucket(log, pr)))]]]

\* Titles and outcomes of the logged blocks
DeepWork == <<"D", "e", "e", "p", " ", "W", "o", "r", "k">>
Highlights == <<"H", "i", "g", "h", "l", "i", "g", "h", "t", "s">>
Lunch == <<"L", "u", "n", "c", "h">>
LightFocus == <<"l", "i", "g", "h", "t", " ", "F", "O", "C", "U", "S">>
Done == <<"d", "o", "n", "e">>
Partial == <<"P", "a", "r", "t", "i", "a", "l">>
Skipped == <<"s", "k", "i", "p", "p", "e", "d">>

\* Records log_block_outcome writes (the keys learn_preferences reads); a
\* missing planned_start or outcome is <<>>
LogRecords ==
    {[outcome |-> Done, title |-> DeepWork, planned_start |-> << <<9, 0>> >>],
     [outcome |-> Done, title |-> LightFocus, planned_start |-> << <<9, 15>> >>],
     [outcome |-> Done, title |-> Highlights, planned_start |-> << <<9, 0>> >>],
     [outcome |-> Done, title |-> Lunch, planned_start |-> << <<9, 15>> >>],
     [outcome |-> Partial, title |-> Lunch, planned_start |-> << <<13, 30>> >>],
     [outcome |-> Skipped, title |-> DeepWork, planned_start |-> << <<16, 0>> >>],
     [outcome |-> Done, title |-> Lunch, planned_start |-> <<>>],
     [outcome |-> <<>>, title |-> Highlights, planned_start |-> << <<16, 0>> >>]}

\* A preferences file left by an earlier run on another log
OldPreferences == [by_priority |-> [pr \in {"low"} |-> [preferred_start |-> <<16, 0>>]]]

LearnInit ==
    /\ NotLearnIdle
    /\ plan_log = <<>>
    /\ preferences \in {<<>>, <<OldPreferences>>}
    /\ returned = <<>>
    /\ runs = 0
    /\ first_run = <<>>

\* log_block_outcome lines 27-40
LogBlockOutcome ==
    /\ Len(plan_log) < MaxLog
    /\ \E rec \in LogRecords : plan_log' = Append(plan_log, rec)
    /\ runs' = 0
    /\ first_run' = <<>>
    /\ UNCHANGED <<preferences, returned, notLearnVars>>

\* learn_preferences lines 30-75
LearnPreferences ==
    /\ runs < 2
    /\ \E prefs \in {learn_preferences(plan_log)} :
          /\ preferences' = <<prefs>>
          /\ returned' = <<prefs>>
          /\ first_run' = IF runs = 0 THEN <<prefs>> ELSE first_run
    /\ runs' = runs + 1
    /\ UNCHANGED <<plan_log, notLearnVars>>

LearnNext ==
    \/ LogBlockOutcome
    \/ LearnPreferences

SpecLearn == LearnInit /\ [][LearnNext]_vars

\* The bucket each logged title belongs to, read off the title
BucketOfTitle(title) ==
    CASE title = DeepWork -> "high"
      [] title = LightFocus -> "high"
      [] title = Highlights -> "low"
      [] title = Lunch -> "normal"

\* The planned starts, in minutes, of the records that count for a bucket
CountedStarts(pr) ==
    LET Counts(rec) == /\ rec.outcome \in {Done, Partial}
                       /\ rec.planned_start # <<>>
                       /\ BucketOfTitle(rec.title) = pr
        counted == SelectSeq(plan_log, Counts)
    IN [k \in 1..Len(counted) |->
           counted[k].planned_start[1][1] * 60 + counted[k].planned_start[1][2]]

\* C12: after learn_preferences the profile, returned and stored, has for
\* each bucket with a done or partial record the integer-division average of
\* the bucket's planned starts and no entry for a bucket without one, whatever
\* the preferences file held before; a second run on the same log returns
\* and stores the same profile.
C12_LearnFromLogOnly ==
    runs >= 1 =>
        /\ preferences = returned
        /\ returned = first_run
        /\ \A pr \in {"high", "normal", "low"} :
              LET starts == CountedStarts(pr)
                  avg == sum(starts) \div Len(starts)
              IN IF starts = <<>>
                 THEN pr \notin DOMAIN returned[1].by_priority
                 ELSE /\ pr \in DOMAIN returned[1].by_priority
                      /\ returned[1].by_priority[pr].preferred_start = <<avg \div 60, avg % 60>>

C12_Witness ==
    /\ runs = 2
    /\ DOMAIN returned[1].by_priority = {"high"}
    /\ returned[1].by_priority["high"].preferred_start = <<9, 7>>
    /\ \E k \in 1..Len(plan_log) : plan_log[k].title = LightFocus
    /\ \E k \in 1..Len(plan_log) : plan_log[k].outcome = Skipped

\* ======================================================================
\* utils/budget: record and total_spend calls on the ledger.  Money is an
\* integer number of millionths of a dollar, which holds every estimate
\* exactly (a token costs 5 or 15 of them).
\* ======================================================================
MaxRecords == 3

\* lines 16-17, per 1000 tokens
PRICE_PER_1K_INPUT == 5000
PRICE_PER_1K_OUTPUT == 15000

\* round(x, 4): to the nearest ten-thousandth of a dollar, a tie to the even one
Round4(usd) ==
    LET q == usd \div 100
        r == usd % 100
    IN IF r > 50 \/ (r = 50 /\ q % 2 = 1) THEN (q + 1) * 100 ELSE q * 100

\* DEFAULT lines 10-14
DEFAULT == [period |-> "weekly", limit_usd |-> 8000000, history |-> <<>>]

\* _load lines 20-24
BudgetLoad(file) == IF file = <<>> THEN DEFAULT ELSE file[1]

\* estimate_cost lines 32-33
estimate_cost(tokens_in, tokens_out) ==
    (tokens_in * PRICE_PER_1K_INPUT) \div 1000 + (tokens_out * PRICE_PER_1K_OUTPUT) \div 1000

\* record lines 36-47
record(file, tokens_in, tokens_out) ==
    LET data == BudgetLoad(file)
        usd == estimate_cost(tokens_in, tokens_out)
        entry == [tokens_in |-> tokens_in, tokens_out |-> tokens_out,
                  usd_estimate |-> Round4(usd), note |-> ""]
    IN [file |-> <<[data EXCEPT !.history = Append(@, entry)]>>, usd |-> usd]

\* total_spend lines 50-53
total_spend(file) ==
    LET history == BudgetLoad(file).history
    IN [file |-> <<BudgetLoad(file)>>,
        total |-> Round4(sum([k \in 1..Len(history) |-> history[k].usd_estimate]))]

TokensIn == {0, 1, 2000}
TokensOut == {0, 4, 1000}

BudgetInit ==
    /\ NotBudgetIdle
    /\ budget_file = <<>>
    /\ usd_returned = <<>>
    /\ total_returned = <<>>

Record ==
    /\ Len(usd_returned) < MaxRecords
    /\ \E tokens_in \in TokensIn, tokens_out \in TokensOut :
       \E r \in {record(budget_file, tokens_in, tokens_out)} :
          /\ budget_file' = r.file
          /\ usd_returned' = Append(usd_returned, r.usd)
    /\ total_returned' = <<>>
    /\ UNCHANGED notBudgetVars

TotalSpend ==
    /\ total_returned = <<>>
    /\ \E t \in {total_spend(budget_file)} :
          /\ budget_file' = t.file
          /\ total_returned' = <<t.total>>
    /\ UNCHANGED <<usd_returned, notBudgetVars>>

BudgetNext ==
    \/ Record
    \/ TotalSpend

SpecBudget == BudgetInit /\ [][BudgetNext]_vars

\* C13: every record call returns the usd_estimate it stored, which is the
\* cost rounded to 4 decimals, and total_spend returns the sum of the
\* values the record calls returned.
C13_ReturnedIsStored ==
    LET history == BudgetLoad(budget_file).history
    IN /\ Len(history) = Len(usd_returned)
       /\ \A k \in 1..Len(history) :
             /\ history[k].usd_estimate = usd_returned[k]
             /\ history[k].usd_estimate =
                   Round4(history[k].tokens_in * 5 + history[k].tokens_out * 15)
       /\ total_returned # <<>> => total_returned[1] = sum(usd_returned)

\* The ledger side of C13, which holds: each entry stores the rounded cost of
\* its tokens and total_spend returns the sum of the stored values
C13_LedgerSums ==
    LET history == BudgetLoad(budget_file).history
    IN /\ Len(history) = Len(usd_returned)
       /\ \A k \in 1..Len(history) :
             history[k].usd_estimate =
                Round4(history[k].tokens_in * 5 + history[k].tokens_out * 15)
       /\ total_returned # <<>> =>
             total_returned[1] = sum([k \in 1..Len(history) |-> history[k].usd_estimate])

\* ======================================================================
\* email_service/feedback_handler: votes on articles.  A title and a keyword
\* are sequences of characters; a source is a string, "" when the article
\* has none; a score table is a function from the keys it holds to integers.
\* ======================================================================
MaxVotes == 2

EmptyFeedback == [sources |-> <<>>, keywords |-> <<>>]

\* load_feedback lines 14-21: the profile read, and the file as the call leaves it
load_feedback(file) ==
    IF file = <<>> THEN [file |-> <<EmptyFeedback>>, feedback |-> EmptyFeedback]
    ELSE [file |-> file, feedback |-> file[1]]

\* str.split(): the maximal runs of non-blank characters, in order
RECURSIVE SplitFrom(_, _, _)
SplitFrom(s, k, word) ==
    IF k > Len(s) THEN (IF word = <<>> THEN <<>> ELSE <<word>>)
    ELSE IF s[k] = " "
         THEN (IF word = <<>> THEN <<>> ELSE <<word>>) \o SplitFrom(s, k + 1, <<>>)
         ELSE SplitFrom(s, k + 1, Append(word, s[k]))

split(s) == SplitFrom(s, 1, <<>>)

\* d.setdefault(key, 0); d[key] += delta
Bump(d, key, delta) ==
    [x \in DOMAIN d \cup {key} |->
        IF x = key THEN (IF key \in DOMAIN d THEN d[key] ELSE 0) + delta ELSE d[x]]

\* update_feedback lines 40-43 with `>= 3` for `> 3`
RECURSIVE BumpKeywords_ThreeLetters(_, _, _)
BumpKeywords_ThreeLetters(keywords, title_keywords, delta) ==
    IF title_keywords = <<>> THEN keywords
    ELSE BumpKeywords_ThreeLetters(
             IF Len(Head(title_keywords)) >= 3
             THEN Bump(keywords, Head(title_keywords), delta) ELSE keywords,
             Tail(title_keywords), delta)

\* update_feedback lines 40-43
RECURSIVE BumpKeywords(_, _, _)
BumpKeywords(keywords, title_keywords, delta) ==
    IF title_keywords = <<>> THEN keywords
    ELSE BumpKeywords(
             IF Len(Head(title_keywords)) > 3
             THEN Bump(keywords, Head(title_keywords), delta) ELSE keywords,
             Tail(title_keywords), delta)

\* update_feedback lines 29-45: the file after the call
update_feedback(file, article, vote) ==
    LET feedback == load_feedback(file).feedback
        delta == IF vote = "up" THEN 1 ELSE -1
        sources == IF article.source # "" THEN Bump(feedback.sources, article.source, delta)
                   ELSE feedback.sources
        keywords == BumpKeywords(feedback.keywords, split(lower(article.title)), delta)
    IN <<[sources |-> sources, keywords |-> keywords]>>

\* int(): the integer a query value denotes, <<>> when int() raises ValueError
int(str) ==
    CASE str = "-1" -> <<-1>> [] str = "0" -> <<0>> [] str = "1" -> <<1>>
      [] str = "2" -> <<2>> [] str = "3" -> <<3>> [] str = "4" -> <<4>>
      [] OTHER -> <<>>

\* handle_feedback_url with line 54 testing the upper end only: a negative
\* index counts from the end of the list
handle_feedback_url_NoLowerBound(file, query, articles) ==
    LET article_index == int(IF query.article = <<>> THEN "0" ELSE query.article[1])
        vote == IF query.vote = <<>> THEN "up" ELSE query.vote[1]
    IN IF article_index = <<>> THEN [file |-> file, outcome |-> "raised"]
       ELSE IF article_index[1] < Len(articles)
       THEN [file |-> update_feedback(file, articles[IF article_index[1] >= 0
                                                     THEN article_index[1] + 1
                                                     ELSE Len(articles) + article_index[1] + 1],
                                      vote),
             outcome |-> "updated"]
       ELSE [file |-> file, outcome |-> "invalid"]

\* handle_feedback_url lines 48-58; `query` is parse_qs of the URL's query:
\* each parameter <<>> when absent, else <<its first value>>.  articles[k + 1]
\* is Python's articles[k].
handle_feedback_url(file, query, articles) ==
    LET article_index == int(IF query.article = <<>> THEN "0" ELSE query.article[1])
        vote == IF query.vote = <<>> THEN "up" ELSE query.vote[1]
    IN IF article_index = <<>> THEN [file |-> file, outcome |-> "raised"]
       ELSE IF 0 <= article_index[1] /\ article_index[1] < Len(articles)
       THEN [file |-> update_feedback(file, articles[article_index[1] + 1], vote),
             outcome |-> "updated"]
       ELSE [file |-> file, outcome |-> "invalid"]

\* Articles voted on
AiNews == [title |-> <<"A", "I", " ", "N", "e", "w", "s">>, source |-> "bbc.com"]
NewsAboutNews ==
    [title |-> <<"N", "e", "w", "s", " ", "a", "b", "o", "u", "t", " ", "N", "E", "W", "S">>,
     source |-> "nyt.com"]
TheBigCat == [title |-> <<"T", "h", "e", " ", "b", "i", "g", " ", " ", "c", "a", "t">>, source |-> ""]
RustShips ==
    [title |-> <<" ", "R", "u", "s", "t", " ", " ", "s", "h", "i", "p", "s">>, source |-> "bbc.com"]

Articles == {AiNews, NewsAboutNews, TheBigCat, RustShips}

\* feedback_server line 10: the articles the server knows
LATEST_ARTICLES == <<AiNews, NewsAboutNews, TheBigCat>>

Queries == [article : {<<>>, <<"-1">>, <<"1">>, <<"2">>, <<"3">>, <<"x">>},
            vote : {<<>>, <<"down">>}]

FeedbackInit ==
    /\ NotFeedbackIdle
    /\ feedback_file = <<>>
    /\ fb_before = <<>>
    /\ fb_call = [name |-> "none"]
    /\ fb_calls = 0

\* update_feedback lines 29-45
UpdateFeedback ==
    /\ fb_calls < MaxVotes
    /\ \E article \in Articles, vote \in {"up", "down"} :
          /\ feedback_file' = update_feedback(feedback_file, article, vote)
          /\ fb_call' = [name |-> "update_feedback", article |-> article, vote |-> vote]
    /\ fb_before' = feedback_file
    /\ fb_calls' = fb_calls + 1
    /\ UNCHANGED notFeedbackVars

\* handle_feedback_url lines 48-58, called by the server with the articles it knows
HandleFeedbackUrl ==
    /\ fb_calls < MaxVotes
    /\ \E query \in Queries :
       \E h \in {handle_feedback_url(feedback_file, query, LATEST_ARTICLES)} :
          /\ feedback_file' = h.file
          /\ fb_call' = [name |-> "handle_feedback_url", query |-> query, outcome |-> h.outcome]
    /\ fb_before' = feedback_file
    /\ fb_calls' = fb_calls + 1
    /\ UNCHANGED notFeedbackVars

FeedbackNext ==
    \/ UpdateFeedback
    \/ HandleFeedbackUrl

SpecFeedback == FeedbackInit /\ [][FeedbackNext]_vars

\* The profile before the last call and after it
FbBefore == load_feedback(fb_before).feedback
FbAfter == load_feedback(feedback_file).feedback

Score(d, key) == IF key \in DOMAIN d THEN d[key] ELSE 0

\* The words of more than 3 characters in each article's title, lower-cased,
\* and how often each occurs there
News == <<"n", "e", "w", "s">>
About == <<"a", "b", "o", "u", "t">>
Rust == <<"r", "u", "s", "t">>
Ships == <<"s", "h", "i", "p", "s">>

LongWords(article) ==
    CASE article = AiNews -> {News}
      [] article = NewsAboutNews -> {News, About}
      [] article = TheBigCat -> {}
      [] article = RustShips -> {Rust, Ships}

Occurrences(article, word) ==
    IF word \notin LongWords(article) THEN 0
    ELSE IF article = NewsAboutNews /\ word = News THEN 2 ELSE 1

Voted == fb_call.name = "update_feedback"

Delta == IF fb_call.vote = "up" THEN 1 ELSE -1

\* What C14 says of the sources, and of the keys: every key scored is a word
\* of more than 3 characters of the title
C14_Sources ==
    Voted =>
        /\ DOMAIN FbAfter.sources =
              DOMAIN FbBefore.sources \cup (IF fb_call.article.source = "" THEN {}
                                            ELSE {fb_call.article.source})
        /\ \A src \in DOMAIN FbAfter.sources :
              Score(FbAfter.sources, src) =
                 Score(FbBefore.sources, src) + (IF src = fb_call.article.source THEN Delta ELSE 0)
        /\ DOMAIN FbAfter.keywords = DOMAIN FbBefore.keywords \cup LongWords(fb_call.article)
        /\ \A kw \in DOMAIN FbAfter.keywords : Len(kw) > 3

\* C14 as stated: a vote moves the source's score by +1 (up) or -1 (down),
\* moves by that same amount the score of every word of more than 3
\* characters of the lower-cased title, scores no shorter word, and leaves
\* every other score as it was.
C14_EveryWordByOne ==
    /\ C14_Sources
    /\ Voted =>
          \A kw \in DOMAIN FbAfter.keywords :
              Score(FbAfter.keywords, kw) =
                 Score(FbBefore.keywords, kw)
                    + (IF kw \in LongWords(fb_call.article) THEN Delta ELSE 0)

\* C14 amended: a vote moves the source's score by +1 (up) or -1 (down),
\* moves the score of every word of more than 3 characters of the
\* lower-cased title by that amount once for each time the word occurs in
\* the title, scores no shorter word, and leaves every other score as it was.
C14_EveryOccurrenceByOne ==
    /\ C14_Sources
    /\ Voted =>
          \A kw \in DOMAIN FbAfter.keywords :
              Score(FbAfter.keywords, kw) =
                 Score(FbBefore.keywords, kw) + Delta * Occurrences(fb_call.article, kw)

C14_Witness ==
    /\ Voted
    /\ fb_call.article = NewsAboutNews
    /\ fb_call.vote = "down"
    /\ Score(FbBefore.keywords, News) = 1
    /\ Score(FbAfter.keywords, News) = -1
    /\ Score(FbAfter.sources, "bbc.com") = 1

\* C15: handle_feedback_url with an article index outside 0 .. number of
\* known articles - 1 leaves the profile as it was; with an index inside
\* it applies one vote, the URL's, to the known article at that index.
C15_IndexInRangeOrNothing ==
    fb_call.name = "handle_feedback_url" =>
        LET idx == CASE fb_call.query.article = <<>> -> <<0>>
                     [] fb_call.query.article = <<"-1">> -> <<-1>>
                     [] fb_call.query.article = <<"1">> -> <<1>>
                     [] fb_call.query.article = <<"2">> -> <<2>>
                     [] fb_call.query.article = <<"3">> -> <<3>>
                     [] OTHER -> <<>>
            vote == IF fb_call.query.vote = <<>> THEN "up" ELSE fb_call.query.vote[1]
        IN IF idx # <<>> /\ idx[1] \in 0..(Len(LATEST_ARTICLES) - 1)
           THEN /\ fb_call.outcome = "updated"
                /\ feedback_file = update_feedback(fb_before, LATEST_ARTICLES[idx[1] + 1], vote)
           ELSE /\ fb_call.outcome # "updated"
                /\ feedback_file = fb_before

C15_Witness ==
    /\ fb_call.name = "handle_feedback_url"
    /\ fb_call.query.article = <<"-1">>
    /\ fb_call.outcome = "invalid"
    /\ fb_before # <<>>
    /\ feedback_file = fb_before

C15_WitnessInRange ==
    /\ fb_call.name = "handle_feedback_url"
    /\ fb_call.query.article = <<"2">>
    /\ fb_call.outcome = "updated"
    /\ feedback_file # fb_before

\* ======================================================================
\* Telemetry ingestion: data_collector.send_data and POST /location
\* ======================================================================

MaxSubmissions == 2

\* JSON values of a payload: a number (latitudes and longitudes in tenths of
\* a degree), a string (a sequence of characters), or an object with lat and
\* lon
Num(n) == [kind |-> "number", num |-> n, text |-> <<>>, lat |-> 0, lon |-> 0]
Str(t) == [kind |-> "str", num |-> 0, text |-> t, lat |-> 0, lon |-> 0]
Obj(lat, lon) == [kind |-> "dict", num |-> 0, text |-> <<>>, lat |-> lat, lon |-> lon]

\* str.strip()
RECURSIVE strip(_)
strip(s) ==
    IF s = <<>> THEN s
    ELSE IF Head(s) = " " THEN strip(Tail(s))
    ELSE IF s[Len(s)] = " " THEN strip(SubSeq(s, 1, Len(s) - 1))
    ELSE s

\* float(x): <<value>>, or <<>> where Python raises; surrounding blanks of a
\* string are ignored
float(x) ==
    IF x.kind = "number" THEN <<x.num>>
    ELSE IF x.kind = "str"
    THEN CASE strip(x.text) = <<"4", "3", ".", "6">> -> <<436>>
           [] strip(x.text) = <<"-", "1", "1", "6", ".", "2">> -> <<-1162>>
           [] OTHER -> <<>>
    ELSE <<>>

\* "," in s, and s.split(",", 1)
HasComma(s) == \E k \in 1..Len(s) : s[k] = ","

SplitComma(s) ==
    LET k == CHOOSE j \in 1..Len(s) : s[j] = "," /\ \A h \in 1..(j - 1) : s[h] # ","
    IN <<SubSeq(s, 1, k - 1), SubSeq(s, k + 1, Len(s))>>

\* _validate_gps lines 142-154: TRUE when it returns, FALSE when it raises
_validate_gps(payload) ==
    IF payload.coords # <<>>
    THEN /\ payload.coords[1].kind = "str"
         /\ HasComma(payload.coords[1].text)
         /\ float(Str(SplitComma(payload.coords[1].text)[1])) # <<>>
         /\ float(Str(SplitComma(payload.coords[1].text)[2])) # <<>>
    ELSE IF payload.lat # <<>> /\ payload.lon # <<>>
    THEN float(payload.lat[1]) # <<>> /\ float(payload.lon[1]) # <<>>
    ELSE FALSE

\* _gen_flow_id line 56: a fresh identifier, the n-th one generated
_gen_flow_id(n) == <<"flow_", n>>

\* The flow identifiers the flows table holds
FlowIdsIn(con) == {con.flows[k].flow_id : k \in 1..Len(con.flows)}

\* _ensure_flow as a plain INSERT into a table without a key
_ensure_flow_NoKey(con, flow_id) ==
    [con EXCEPT !.flows = Append(@, [flow_id |-> flow_id])]

\* _ensure_flow lines 202-206: INSERT OR IGNORE on the table whose primary
\* key is flow_id (line 76)
_ensure_flow(con, flow_id) ==
    IF flow_id \in FlowIdsIn(con) THEN con
    ELSE [con EXCEPT !.flows = Append(@, [flow_id |-> flow_id])]

\* _store_gps lines 208-219
_store_gps(con, flow_id, payload) ==
    LET lat == IF payload.coords # <<>>
               THEN float(Str(strip(SplitComma(payload.coords[1].text)[1])))[1]
               ELSE float(payload.lat[1])[1]
        lon == IF payload.coords # <<>>
               THEN float(Str(strip(SplitComma(payload.coords[1].text)[2])))[1]
               ELSE float(payload.lon[1])[1]
    IN [con EXCEPT !.gps = Append(@, [local_id |-> Len(@) + 1, flow_id |-> flow_id,
                                      lat |-> lat, lon |-> lon])]

\* _iso_to_dt lines 44-51: TRUE when the text parses
_iso_to_dt(text) == text \in {"2025-08-20T10:00:00", "2025-08-20T11:00:00Z"}

\* The entries of a list that an object requires, each <<>> when missing
HasKeys(obj, keys) == \A k \in keys : obj[k] # <<>>

\* _validate_calendar lines 156-168; a payload's events entry is <<>> when
\* missing or no list, else <<the list>>
_validate_calendar(payload) ==
    /\ "events" \in DOMAIN payload
    /\ payload.events # <<>>
    /\ \A k \in 1..Len(payload.events[1]) :
          LET ev == payload.events[1][k]
          IN /\ HasKeys(ev, {"title", "start_time", "end_time"})
             /\ _iso_to_dt(ev.start_time[1])
             /\ _iso_to_dt(ev.end_time[1])

\* _validate_screen_usage lines 170-186
_validate_screen_usage(payload) ==
    /\ "sessions" \in DOMAIN payload
    /\ payload.sessions # <<>>
    /\ \A k \in 1..Len(payload.sessions[1]) :
          LET ses == payload.sessions[1][k]
          IN /\ HasKeys(ses, {"app_name", "package_name", "start_time"})
             /\ _iso_to_dt(ses.start_time[1])

\* validate lines 295-299 with the VALIDATORS of lines 192-197; a USER
\* payload needs only be an object
validate(category, payload) ==
    CASE category = "GPS" -> _validate_gps(payload)
      [] category = "CALENDAR" -> _validate_calendar(payload)
      [] category = "SCREEN_USAGE" -> _validate_screen_usage(payload)
      [] category = "USER" -> TRUE
      [] OTHER -> FALSE

\* _store_calendar lines 221-240: one row for each event
_store_calendar(con, flow_id, payload) ==
    [con EXCEPT !.calendar_events =
        @ \o [k \in 1..Len(payload.events[1]) |->
                 [local_id |-> Len(@) + k, flow_id |-> flow_id,
                  title |-> payload.events[1][k].title[1]]]]

\* _store_screen_usage lines 242-276: one row for each session
_store_screen_usage(con, flow_id, payload) ==
    [con EXCEPT !.screen_usage_sessions =
        @ \o [k \in 1..Len(payload.sessions[1]) |->
                 [local_id |-> Len(@) + k, flow_id |-> flow_id,
                  app_name |-> payload.sessions[1][k].app_name[1]]]]

\* _store_user lines 278-285: json.dumps raises for a payload holding a
\* value JSON has no form for, before anything is inserted
_store_user(con, flow_id, payload) ==
    IF payload.serializable
    THEN [ok |-> TRUE,
          con |-> [con EXCEPT !.user_events =
                      Append(@, [local_id |-> Len(@) + 1, flow_id |-> flow_id])]]
    ELSE [ok |-> FALSE, con |-> con]

\* STORES lines 287-292: the connection after the category's store, and
\* whether it returned
STORES(category, con, flow_id, payload) ==
    CASE category = "GPS" -> [ok |-> TRUE, con |-> _store_gps(con, flow_id, payload)]
      [] category = "CALENDAR" -> [ok |-> TRUE, con |-> _store_calendar(con, flow_id, payload)]
      [] category = "SCREEN_USAGE" ->
            [ok |-> TRUE, con |-> _store_screen_usage(con, flow_id, payload)]
      [] category = "USER" -> _store_user(con, flow_id, payload)

\* send_data lines 301-326; generated is the number of identifiers
\* generated after the call.  The with block of lines 319-321 commits when
\* the store returns and rolls back, the flows row included, when it raises.
send_data(con, generated, category, payload, flow_id) ==
    IF ~validate(category, payload)
    THEN [db |-> con, generated |-> generated, outcome |-> "ValueError", id |-> <<>>]
    ELSE LET fid == IF flow_id = <<>> THEN _gen_flow_id(generated + 1) ELSE flow_id[1]
             stored == STORES(category, _ensure_flow(con, fid), fid, payload)
         IN [db |-> IF stored.ok THEN stored.con ELSE con,
             generated |-> IF flow_id = <<>> THEN generated + 1 ELSE generated,
             outcome |-> IF stored.ok THEN "ok" ELSE "TypeError", id |-> <<>>]

\* _unwrap_json lines 62-70: a "json" entry holding a string that parses
\* replaces the body
_unwrap_json(data) ==
    IF data.json # <<>> /\ data.json[1].loads # <<>> THEN data.json[1].loads[1] ELSE data

\* LocationEvent(**data) lines 20-26: device_id, ts and a coords object with
\* lat and lon are required
LocationEvent(data) ==
    /\ data.device_id # <<>>
    /\ data.ts # <<>>
    /\ data.coords # <<>>
    /\ data.coords[1].kind = "dict"

\* store_data("LOCATION", payload): one row under a generated flow identifier
store_data(con, generated, payload) ==
    LET fid == _gen_flow_id(generated + 1)
        con1 == _ensure_flow(con, fid)
    IN [db |-> [con1 EXCEPT !.gps = Append(@, [local_id |-> Len(@) + 1, flow_id |-> fid,
                                               lat |-> payload.coords[1].lat,
                                               lon |-> payload.coords[1].lon])],
        generated |-> generated + 1]

\* post_location lines 75-88
post_location(con, generated, request) ==
    LET data == _unwrap_json(request)
    IN IF LocationEvent(data)
       THEN LET s == store_data(con, generated, data)
            IN [db |-> s.db, generated |-> s.generated, outcome |-> "ok",
                id |-> <<Len(s.db.gps)>>]
       ELSE [db |-> con, generated |-> generated, outcome |-> "error", id |-> <<>>]

\* Submissions
Boise == <<"4", "3", ".", "6", ",", " ", "-", "1", "1", "6", ".", "2">>
Home == <<"h", "o", "m", "e">>
North == <<"n", "o", "r", "t", "h">>

Payloads ==
    [device_id : {<<>>, <<"phone">>},
     ts : {<<"2025-08-20T10:00:00">>},
     coords : {<<>>, <<Str(Boise)>>, <<Str(Home)>>, <<Obj(436, -1162)>>},
     coordinates : {<<>>, <<Obj(436, -1162)>>},
     lat : {<<>>, <<Num(436)>>, <<Str(<<"4", "3", ".", "6">>)>>, <<Str(North)>>},
     lon : {<<>>, <<Num(-1162)>>}]

NoPayload ==
    [device_id |-> <<>>, ts |-> <<>>, coords |-> <<>>, coordinates |-> <<>>,
     lat |-> <<>>, lon |-> <<>>]

\* The request body of a payload: as it is, or as the text under a "json" key
Request(payload, wrap) ==
    CASE wrap = "plain" -> [json |-> <<>>] @@ payload
      [] wrap = "json" -> [json |-> <<[loads |-> <<payload>>]>>] @@ NoPayload
      [] wrap = "badjson" -> [json |-> <<[loads |-> <<>>]>>] @@ NoPayload

FlowIds == {<<>>, <<<<"trip", 1>>>>}

\* Submissions of the other categories
Standup ==
    [title |-> <<"Standup">>, start_time |-> <<"2025-08-20T10:00:00">>,
     end_time |-> <<"2025-08-20T11:00:00Z">>]
Mail ==
    [app_name |-> <<"Mail">>, package_name |-> <<"com.mail">>,
     start_time |-> <<"2025-08-20T10:00:00">>]

OtherSubmissions ==
    {[category |-> "CALENDAR", payload |-> [events |-> << <<Standup, Standup>> >>]],
     [category |-> "CALENDAR", payload |-> [events |-> << <<>> >>]],
     [category |-> "CALENDAR",
      payload |-> [events |-> << <<Standup, [Standup EXCEPT !.start_time = <<"soon">>]>> >>]],
     [category |-> "CALENDAR", payload |-> [events |-> <<>>]],
     [category |-> "SCREEN_USAGE", payload |-> [sessions |-> << <<Mail>> >>]],
     [category |-> "SCREEN_USAGE",
      payload |-> [sessions |-> << <<[Mail EXCEPT !.package_name = <<>>]>> >>]],
     [category |-> "USER", payload |-> [serializable |-> TRUE]],
     [category |-> "USER", payload |-> [serializable |-> FALSE]],
     [category |-> "STEPS", payload |-> [serializable |-> TRUE]]}

Submissions == [category : {"GPS"}, payload : Payloads] \cup OtherSubmissions

TelemetryInit ==
    /\ NotTelemetryIdle
    /\ db = EmptyDb
    /\ flows_generated = 0
    /\ t_before = EmptyDb
    /\ t_call = [name |-> "none"]
    /\ t_calls = 0

SendData ==
    /\ t_calls < MaxSubmissions
    /\ \E sub \in Submissions, flow_id \in FlowIds :
       \E r \in {send_data(db, flows_generated, sub.category, sub.payload, flow_id)} :
          /\ db' = r.db
          /\ flows_generated' = r.generated
          /\ t_call' = [name |-> "send_data", category |-> sub.category,
                        payload |-> sub.payload, flow_id |-> flow_id,
                        outcome |-> r.outcome, id |-> r.id]
    /\ t_before' = db
    /\ t_calls' = t_calls + 1
    /\ UNCHANGED notTelemetryVars

PostLocation ==
    /\ t_calls < MaxSubmissions
    /\ \E wrap \in {"plain", "json", "badjson"} :
       \E payload \in (IF wrap = "badjson" THEN {NoPayload} ELSE Payloads) :
       \E r \in {post_location(db, flows_generated, Request(payload, wrap))} :
          /\ db' = r.db
          /\ flows_generated' = r.generated
          /\ t_call' = [name |-> "post_location", category |-> "LOCATION",
                        payload |-> payload, flow_id |-> <<>>,
                        outcome |-> r.outcome, id |-> r.id]
    /\ t_before' = db
    /\ t_calls' = t_calls + 1
    /\ UNCHANGED notTelemetryVars

TelemetryNext ==
    \/ SendData
    \/ PostLocation

SpecTelemetry == TelemetryInit /\ [][TelemetryNext]_vars

Submitted ==
    /\ t_call.name \in {"send_data", "post_location"}
    /\ t_call.category \in {"GPS", "LOCATION"}

\* The submission has no coords or coordinates entry and not both lat and lon
NoPosition(p) ==
    /\ p.coords = <<>>
    /\ p.coordinates = <<>>
    /\ ~(p.lat # <<>> /\ p.lon # <<>>)

\* The submission carries a device id, a timestamp and numbers as top-level
\* lat and lon, and no coords or coordinates entry
NumericTopLevel(p) ==
    /\ p.device_id # <<>> /\ p.ts # <<>>
    /\ p.coords = <<>> /\ p.coordinates = <<>>
    /\ p.lat # <<>> /\ p.lat[1].kind = "number"
    /\ p.lon # <<>> /\ p.lon[1].kind = "number"

Rejected ==
    /\ t_call.outcome \in {"ValueError", "error"}
    /\ db = t_before

\* Exactly one row more, under the supplied flow identifier or, with none
\* supplied, under one the store did not know
OneRowStored ==
    /\ t_call.outcome = "ok"
    /\ Len(db.gps) = Len(t_before.gps) + 1
    /\ SubSeq(db.gps, 1, Len(t_before.gps)) = t_before.gps
    /\ LET row == db.gps[Len(db.gps)]
       IN /\ row.lat = 436 /\ row.lon = -1162
          /\ IF t_call.flow_id # <<>> THEN row.flow_id = t_call.flow_id[1]
             ELSE row.flow_id \notin FlowIdsIn(t_before) /\ row.flow_id[1] = "flow_"
          /\ FlowIdsIn(db) = FlowIdsIn(t_before) \cup {row.flow_id}

\* C16: a location submission with neither a coords/coordinates entry nor
\* top-level lat and lon is rejected with an error and stores nothing; one
\* with numeric top-level lat and lon is accepted and exactly one location
\* row is persisted under the supplied flow identifier, or under a newly
\* generated one when none is supplied.
C16_LocationSubmission ==
    Submitted =>
        /\ NoPosition(t_call.payload) => Rejected
        /\ NumericTopLevel(t_call.payload) => OneRowStored

\* The same of the collector's own entry point, send_data
C16_CollectorSubmission ==
    (t_call.name = "send_data" /\ t_call.category = "GPS") =>
        /\ NoPosition(t_call.payload) => Rejected
        /\ NumericTopLevel(t_call.payload) => OneRowStored

\* POST /location stores nothing for a submission without a coords object
C16_EndpointNeedsCoords ==
    (t_call.name = "post_location" /\ t_call.payload.coords = <<>>) => Rejected

\* ======================================================================
\* The week commands: plan_week and week-commit-anchors
\* ======================================================================

MaxDays == 2
MaxWeekCmds == 1

\* Dates are day numbers; day 0 is a Monday.  datetime.weekday(): Monday = 0
weekday(d) == d % 7

\* _to_date lines 32-35: midnight of the start date, or now
_to_date(d, now_) == IF d # <<>> THEN d[1] * MinutesPerDay ELSE now_

\* _minutes lines 38-51
RECURSIVE _minutes(_, _)
_minutes(blocks_, source_filter) ==
    IF blocks_ = <<>> THEN 0
    ELSE (IF source_filter # "" /\ Head(blocks_).source # source_filter THEN 0
          ELSE Max2(0, Head(blocks_)["end"] - Head(blocks_).start))
         + _minutes(Tail(blocks_), source_filter)

\* _priority_counts lines 54-60, of the blocks with source "event"
_priority_counts(blocks_) ==
    LET Count(pr) == Cardinality({k \in 1..Len(blocks_) :
                         blocks_[k].source = "event" /\ OrNormal(blocks_[k].priority) = pr})
    IN [high |-> Count("high"), normal |-> Count("normal"), low |-> Count("low")]

\* plan_week lines 82-103: the entry of a day from its plan
DayOut(ref_date, plan_) ==
    LET pr_counts == _priority_counts(plan_.blocks)
        scheduled_min == _minutes(plan_.blocks, "event")
        focus_min == _minutes(plan_.blocks, "gap")
    IN [date |-> ref_date, plan |-> plan_,
        summary |-> [events |-> pr_counts.high + pr_counts.normal + pr_counts.low,
                     high |-> pr_counts.high, normal |-> pr_counts.normal, low |-> pr_counts.low,
                     scheduled_minutes |-> scheduled_min, focus_minutes |-> focus_min,
                     free_minutes |-> Max2(0, 12 * 60 - (scheduled_min + focus_min))]]

\* plan_week lines 76-103: day i of the loop
DayEntry(all_events, start_dt, day_index) ==
    LET ref == start_dt + day_index * MinutesPerDay
        StartsOnDay(e) == Len(e.time) >= 1 /\ e.time[1] = date(ref)
    IN CHOOSE entry \in {DayOut(date(ref), plan_) :
                            plan_ \in {plan_day(SelectSeq(all_events, StartsOnDay), ref)}} : TRUE

RECURSIVE SumOf(_, _)
SumOf(days_out, key) ==
    IF days_out = <<>> THEN 0 ELSE Head(days_out).summary[key] + SumOf(Tail(days_out), key)

\* plan_week lines 105-116: the totals and the returned dict
WeekOut(days_out) ==
    [days |-> days_out,
     totals |-> [key \in {"events", "high", "normal", "low", "scheduled_minutes",
                          "focus_minutes", "free_minutes"} |-> SumOf(days_out, key)]]

\* plan_week lines 62-116
plan_week(file, start_date_iso, days, now_) ==
    LET all_events == load_calendar(file).events
    IN CHOOSE wk \in {WeekOut(days_out) :
                         days_out \in {[k \in 1..days |->
                             DayEntry(all_events, _to_date(start_date_iso, now_), k - 1)]}} : TRUE

\* _iso_at_date lines 18-19
_iso_at_date(date_iso, hhmm) == <<date_iso, hhmm \div 60, hhmm % 60>>

\* day.get("anchor_suggestions", [])
AnchorsOf(day) == IF "anchor_suggestions" \in DOMAIN day THEN day.anchor_suggestions ELSE <<>>

\* materialize_weekly_anchors lines 85-111, one anchor; a missing start or
\* end is <<>>
MaterializeAnchor(w, date_iso, a, cfg) ==
    IF a.start = <<>> \/ a["end"] = <<>> THEN w
    ELSE LET duration_min == a["end"][1] - a.start[1] IN
         IF duration_min <= 0 THEN w
         ELSE LET ev == add_event(w.file, "id" \o ToString(w.uuid), a.title,
                                  _iso_at_date(date_iso, a.start[1]),
                                  cfg.default_category, a.priority, duration_min)
              IN [file |-> ev.file, uuid |-> w.uuid + 1, msgs |-> Append(w.msgs, ev.ev.id)]

RECURSIVE MaterializeAnchors(_, _, _, _)
MaterializeAnchors(w, date_iso, anchors, cfg) ==
    IF anchors = <<>> THEN w
    ELSE MaterializeAnchors(MaterializeAnchor(w, date_iso, Head(anchors), cfg),
                            date_iso, Tail(anchors), cfg)

RECURSIVE MaterializeDays(_, _, _)
MaterializeDays(w, days_, cfg) ==
    IF days_ = <<>> THEN w
    ELSE MaterializeDays(MaterializeAnchors(w, Head(days_).date, AnchorsOf(Head(days_)), cfg),
                         Tail(days_), cfg)

\* materialize_weekly_anchors lines 71-112
materialize_weekly_anchors(file, next_uuid, week_outline, cfg) ==
    IF ~cfg.enabled THEN [file |-> file, uuid |-> next_uuid, msgs |-> <<>>]
    ELSE MaterializeDays([file |-> file, uuid |-> next_uuid, msgs |-> <<>>],
                         week_outline.days, cfg)

\* cmd_week_commit_anchors lines 143-151
cmd_week_commit_anchors(file, next_uuid, start, days, now_, cfg) ==
    LET wk == plan_week(file, start, days, now_)
        m == materialize_weekly_anchors(file, next_uuid, wk, cfg)
    IN [file |-> m.file, uuid |-> m.uuid, wk |-> wk, created |-> Len(m.msgs)]

\* The anchors configured for a date: by_weekday[str(weekday)], none when
\* the weekday has no entry
ConfiguredAnchors(cfg, d) ==
    IF weekday(d) \in DOMAIN cfg.by_weekday THEN cfg.by_weekday[weekday(d)] ELSE <<>>

\* An outline whose day entries carry the configured anchors, as
\* materialize_weekly_anchors expects it
WithAnchorSuggestions(wk, cfg) ==
    [wk EXCEPT !.days = [k \in 1..Len(wk.days) |->
        [date |-> wk.days[k].date, plan |-> wk.days[k].plan, summary |-> wk.days[k].summary,
         anchor_suggestions |-> ConfiguredAnchors(cfg, wk.days[k].date)]]]

Review == [title |-> "Weekly Review", start |-> <<960>>, end |-> <<1020>>, priority |-> "normal"]

WeekConfigs ==
    {CONFIG.weekly_anchors,
     [CONFIG.weekly_anchors EXCEPT !.enabled = FALSE],
     [CONFIG.weekly_anchors EXCEPT
         !.by_weekday = [wd \in {0, 6} |->
                            IF wd = 0 THEN CONFIG.weekly_anchors.by_weekday[0] \o <<Review>>
                            ELSE <<Review>>]]}

WeekShapes == [title : {"Standup"}, time : {<<0, 9, 0>>, <<1, 10, 0>>, <<5, 9, 0>>},
               priority : {"normal", "high"}]

WeekStarts == {<<>>, <<0>>, <<4>>, <<5>>}

WeekInit ==
    /\ now \in RefDates
    /\ NotWeekIdle
    /\ \E n \in 0..1 : \E shapes \in [1..n -> WeekShapes] :
          /\ week_file = AddAll(shapes, n)
          /\ week_uuid = n + 1
    /\ week_config \in WeekConfigs
    /\ week_before = StoredEvents(week_file)
    /\ week_cmd = [name |-> "none"]
    /\ week_cmds = 0

\* cmd_week lines 121-140
CmdWeek ==
    /\ week_cmds < MaxWeekCmds
    /\ \E start \in WeekStarts, days \in 1..MaxDays :
          week_cmd' = [name |-> "week", start |-> start, days |-> days,
                       wk |-> plan_week(week_file, start, days, now), created |-> 0]
    /\ week_before' = StoredEvents(week_file)
    /\ week_cmds' = week_cmds + 1
    /\ UNCHANGED <<week_file, week_uuid, week_config, notWeekVars>>

\* cmd_week_commit_anchors lines 143-151
CmdWeekCommitAnchors ==
    /\ week_cmds < MaxWeekCmds
    /\ \E start \in WeekStarts, days \in 1..MaxDays :
       \E c \in {cmd_week_commit_anchors(week_file, week_uuid, start, days, now, week_config)} :
          /\ week_file' = c.file
          /\ week_uuid' = c.uuid
          /\ week_cmd' = [name |-> "week-commit-anchors", start |-> start, days |-> days,
                          wk |-> c.wk, created |-> c.created]
    /\ week_before' = StoredEvents(week_file)
    /\ week_cmds' = week_cmds + 1
    /\ UNCHANGED <<week_config, notWeekVars>>

\* materialize_weekly_anchors lines 71-112, called with an outline that
\* carries anchor suggestions
MaterializeWeeklyAnchors ==
    /\ week_cmds < MaxWeekCmds
    /\ \E start \in WeekStarts, days \in 1..MaxDays :
       \E wk \in {WithAnchorSuggestions(plan_week(week_file, start, days, now), week_config)} :
       \E m \in {materialize_weekly_anchors(week_file, week_uuid, wk, week_config)} :
          /\ week_file' = m.file
          /\ week_uuid' = m.uuid
          /\ week_cmd' = [name |-> "materialize_weekly_anchors", start |-> start,
                          days |-> days, wk |-> wk, created |-> Len(m.msgs)]
    /\ week_before' = StoredEvents(week_file)
    /\ week_cmds' = week_cmds + 1
    /\ UNCHANGED <<week_config, notWeekVars>>

WeekNext ==
    \/ CmdWeek
    \/ CmdWeekCommitAnchors
    \/ MaterializeWeeklyAnchors

SpecWeek == WeekInit /\ [][WeekNext]_vars

WeekStored == StoredEvents(week_file)

\* The events the last command added to the store
WeekCreated == SubSeq(WeekStored, Len(week_before) + 1, Len(WeekStored))

\* The anchors configured for the days of the last command's range, each
\* with its date, in day order
RECURSIVE AnchorsInRange(_, _, _)
AnchorsInRange(cfg, first, days) ==
    IF days = 0 THEN <<>>
    ELSE [k \in 1..Len(ConfiguredAnchors(cfg, first)) |->
            [date |-> first, anchor |-> ConfiguredAnchors(cfg, first)[k]]]
         \o AnchorsInRange(cfg, first + 1, days - 1)

RangeStart == date(_to_date(week_cmd.start, now))

\* One created event for each configured anchor of each day of the range,
\* on that day's date at the anchor's start
OneEventPerAnchor ==
    LET expected == AnchorsInRange(week_config, RangeStart, week_cmd.days) IN
    /\ Len(WeekStored) >= Len(week_before)
    /\ SubSeq(WeekStored, 1, Len(week_before)) = week_before
    /\ Len(WeekCreated) = Len(expected)
    /\ \A k \in 1..Len(expected) :
          /\ WeekCreated[k].title = expected[k].anchor.title
          /\ WeekCreated[k].time = <<expected[k].date, expected[k].anchor.start[1] \div 60,
                                     expected[k].anchor.start[1] % 60>>
          /\ WeekCreated[k].priority = expected[k].anchor.priority

\* C17: every day entry returned by plan_week carries the anchor suggestions
\* configured for that date's weekday (Monday = 0), so that
\* week-commit-anchors over a date range creates exactly one calendar event,
\* on that day's date, for each configured anchor of each day in the range.
C17_WeekAnchors ==
    /\ week_cmd.name \in {"week", "week-commit-anchors"} =>
          \A k \in 1..Len(week_cmd.wk.days) :
              AnchorsOf(week_cmd.wk.days[k]) =
                 ConfiguredAnchors(week_config, week_cmd.wk.days[k].date)
    /\ (week_cmd.name = "week-commit-anchors" /\ week_config.enabled) => OneEventPerAnchor

\* week-commit-anchors creates no event at all: plan_week's day entries
\* carry no anchor suggestions
C17_CommitCreatesNothing ==
    week_cmd.name \in {"week", "week-commit-anchors"} =>
        /\ WeekStored = week_before
        /\ \A k \in 1..Len(week_cmd.wk.days) : AnchorsOf(week_cmd.wk.days[k]) = <<>>

\* materialize_weekly_anchors itself, handed an outline that carries the
\* configured anchors, creates one event for each
C17_MaterializeCreatesEach ==
    week_cmd.name = "materialize_weekly_anchors" =>
        IF week_config.enabled THEN OneEventPerAnchor ELSE WeekStored = week_before

\* ======================================================================
\* The sync poller: calendar_sync.poll_loop
\* ======================================================================

MaxResources == 2
MaxCycles == 2

\* _hash lines 7-8
_hash(ics) == <<"sha256", ics>>

\* Remote resources: the iCalendar text is one VEVENT, a calendar without
\* VEVENT, or text that Calendar.from_ical rejects
Vevent(uid, summary) == [kind |-> "vevent", uid |-> uid, summary |-> summary]

RemoteResources ==
    [url : {"/a.ics"}, etag : {"1", "2"},
     data : {Vevent("a", "Standup"), Vevent("a", "Standup moved")}]
    \cup
    {[url |-> "/b.ics", etag |-> "1", data |-> [kind |-> "novevent", uid |-> "", summary |-> ""]],
     [url |-> "/c.ics", etag |-> "1", data |-> [kind |-> "garbage", uid |-> "", summary |-> ""]],
     [url |-> "/d.ics", etag |-> "1", data |-> Vevent("d", "Lunch")],
     [url |-> "/d.ics", etag |-> "2", data |-> Vevent("e", "Lunch")]}

\* What the server lists: every resource has its own URL, and within the
\* calendar collection no two resources hold the same UID
Listings ==
    {l \in UNION {[1..len -> RemoteResources] : len \in 0..MaxResources} :
        \A m, n \in 1..Len(l) :
            m # n => /\ l[m].url # l[n].url
                     /\ (l[m].data.kind = "vevent" /\ l[n].data.kind = "vevent")
                            => l[m].data.uid # l[n].data.uid}

\* s.query(EventCache).filter_by(uid=uid).one_or_none(): the row's index, or 0
RowOf(table, uid) ==
    IF \E k \in 1..Len(table) : table[k].uid = uid
    THEN CHOOSE k \in 1..Len(table) : table[k].uid = uid
    ELSE 0

\* The table after one resource with a VEVENT, when the row is rewritten
\* only on a changed content hash
Upsert_HashOnly(table, res) ==
    LET h == _hash(res.data)
        k == RowOf(table, res.data.uid)
    IN IF k = 0
       THEN Append(table, [href |-> res.url, uid |-> res.data.uid, etag |-> res.etag,
                           summary |-> res.data.summary, content_hash |-> h])
       ELSE IF table[k].content_hash # h
            THEN [table EXCEPT ![k].summary = res.data.summary, ![k].etag = res.etag,
                               ![k].content_hash = h]
            ELSE table

\* poll_loop lines 26-48: the table after one resource with a VEVENT
Upsert(table, res) ==
    LET h == _hash(res.data)
        k == RowOf(table, res.data.uid)
    IN IF k = 0
       THEN Append(table, [href |-> res.url, uid |-> res.data.uid, etag |-> res.etag,
                           summary |-> res.data.summary, content_hash |-> h])
       ELSE IF table[k].content_hash # h \/ table[k].etag # res.etag
            THEN [table EXCEPT ![k].summary = res.data.summary, ![k].etag = res.etag,
                               ![k].content_hash = h]
            ELSE table

\* EventCache lines 10 and 21: href is unique and uid is unique; the commit
\* on line 49 raises IntegrityError for a table that breaks either
Integrity(table) ==
    \A m, n \in 1..Len(table) :
        m # n => table[m].href # table[n].href /\ table[m].uid # table[n].uid

Count(n) == Min2(n + 1, MaxCycles)

PollInit ==
    /\ NotPollIdle
    /\ p_pc = "cycle"
    /\ remote = <<>>
    /\ resources = <<>>
    /\ res_i = 0
    /\ cache = <<>>
    /\ cycles = 1
    /\ failed = 0
    /\ cache_before = <<>>
    /\ raised = FALSE

\* lines 19-23: a cycle starts; caldav.list_events returns what the server
\* holds by now, or raises
P_List ==
    /\ p_pc = "cycle"
    /\ \/ /\ p_pc' = "resource"
          /\ remote' \in Listings
          /\ resources' = remote'
          /\ res_i' = 1
       \/ /\ p_pc' = "except"
          /\ UNCHANGED <<remote, resources, res_i>>
    /\ cache_before' = cache
    /\ UNCHANGED <<cache, cycles, failed, raised, notPollVars>>

\* lines 25-49: one resource; from_ical raises on text it cannot parse, a
\* calendar without VEVENT is skipped, the commit succeeds or raises
P_Resource ==
    /\ p_pc = "resource"
    /\ res_i <= Len(resources)
    /\ LET res == resources[res_i] IN
       \/ /\ res.data.kind = "garbage"
          /\ p_pc' = "except"
          /\ UNCHANGED <<res_i, cache>>
       \/ /\ res.data.kind = "novevent"
          /\ res_i' = res_i + 1
          /\ UNCHANGED <<p_pc, cache>>
       \/ /\ res.data.kind = "vevent"
          /\ \/ /\ Integrity(Upsert(cache, res))
                /\ cache' = Upsert(cache, res)
                /\ res_i' = res_i + 1
                /\ UNCHANGED p_pc
             \/ /\ p_pc' = "except"
                /\ UNCHANGED <<res_i, cache>>
    /\ UNCHANGED <<remote, resources, cycles, failed, cache_before, raised, notPollVars>>

\* line 25: the listing is exhausted
P_Done ==
    /\ p_pc = "resource"
    /\ res_i > Len(resources)
    /\ p_pc' = "sleep"
    /\ UNCHANGED <<remote, resources, res_i, cache, cycles, failed, cache_before, raised,
                   notPollVars>>

\* An exception that ends the task instead of being caught on line 50
P_Except_Propagates ==
    /\ p_pc = "except"
    /\ p_pc' = "stopped"
    /\ failed' = Count(failed)
    /\ raised' = TRUE
    /\ UNCHANGED <<remote, resources, res_i, cache, cycles, cache_before, notPollVars>>

\* lines 50-51: the exception is caught and printed
P_Except ==
    /\ p_pc = "except"
    /\ p_pc' = "sleep"
    /\ failed' = Count(failed)
    /\ raised' = TRUE
    /\ UNCHANGED <<remote, resources, res_i, cache, cycles, cache_before, notPollVars>>

\* line 52 and line 19: the sleep ends and the loop goes round
P_Sleep ==
    /\ p_pc = "sleep"
    /\ p_pc' = "cycle"
    /\ cycles' = Count(cycles)
    /\ resources' = <<>>
    /\ res_i' = 0
    /\ remote' = <<>>
    /\ cache_before' = <<>>
    /\ raised' = FALSE
    /\ UNCHANGED <<cache, failed, notPollVars>>

PollNext ==
    \/ P_List
    \/ P_Resource
    \/ P_Done
    \/ P_Except
    \/ P_Sleep

\* The event loop runs the task whenever it can take a step
SpecPoll == PollInit /\ [][PollNext]_vars /\ WF_vars(PollNext)

\* C19: a poll cycle that raises (listing the remote events, parsing a
\* resource, writing the cache) does not end the loop: the exception is
\* followed by the sleep, the sleep by the start of the next cycle, and
\* under fair scheduling cycles start infinitely often however many fail.
C19_PollerSurvivesFailures ==
    /\ [][p_pc = "except" => p_pc' = "sleep"]_vars
    /\ [][p_pc = "sleep" => p_pc' = "cycle"]_vars
    /\ [](p_pc \in {"cycle", "resource", "except", "sleep"})
    /\ (p_pc = "except" ~> p_pc = "cycle")
    /\ []<>(p_pc = "cycle")

\* A cycle starts after every earlier cycle has failed
C19_Witness ==
    /\ p_pc = "cycle"
    /\ cycles = MaxCycles
    /\ failed = MaxCycles
    /\ Len(cache) = 1

\* The rows of the cache that hold this UID
RowsOf(table, uid) == {k \in 1..Len(table) : table[k].uid = uid}

\* The resources of the cycle's listing that hold an event
RemoteEvents == {k \in 1..Len(resources) : resources[k].data.kind = "vevent"}

\* The cycle has run through the whole listing and raised nothing
CycleCompleted == p_pc = "sleep" /\ ~raised

\* The row is as the remote holds its event: no listed resource with the
\* row's UID differs from it in content hash or entity tag
Unchanged(row) ==
    \A k \in RemoteEvents :
        resources[k].data.uid = row.uid =>
            /\ _hash(resources[k].data) = row.content_hash
            /\ resources[k].etag = row.etag

\* C23: after a poll cycle that completes without an exception, every
\* remote event of the listing has exactly one cache row with its UID, and
\* the row's content hash and entity tag are those of the remote resource;
\* a row whose hash and entity tag are both unchanged is left as it was by
\* the cycle; and at all times no two rows share a UID.
C23_CacheMirrorsRemote ==
    /\ CycleCompleted =>
          \A k \in RemoteEvents :
              /\ Cardinality(RowsOf(cache, resources[k].data.uid)) = 1
              /\ \A r \in RowsOf(cache, resources[k].data.uid) :
                    /\ cache[r].content_hash = _hash(resources[k].data)
                    /\ cache[r].etag = resources[k].etag
    /\ CycleCompleted =>
          \A r \in 1..Len(cache_before) :
              Unchanged(cache_before[r]) => cache[r] = cache_before[r]
    /\ \A m, n \in 1..Len(cache) : m # n => cache[m].uid # cache[n].uid

\* A completed cycle that inserted one row, rewrote one whose entity tag
\* alone had changed, and found nothing to insert
C23_Witness ==
    /\ CycleCompleted
    /\ Len(resources) = 2 /\ RemoteEvents = {1, 2}
    /\ Len(cache_before) = 1 /\ Len(cache) = 2
    /\ cache_before[1].uid = "a"
    /\ cache_before[1].content_hash = cache[1].content_hash
    /\ cache_before[1].etag # cache[1].etag

\* A completed cycle that left a row whose hash and entity tag are those of
\* the remote untouched
C23_WitnessUntouched ==
    /\ CycleCompleted
    /\ cache_before # <<>>
    /\ \E k \in RemoteEvents : resources[k].data.uid = cache_before[1].uid
    /\ Unchanged(cache_before[1])
    /\ cache = cache_before


\* ======================================================================
\* plan_day: the nudges it returns, and the displacement of the
\* last-scheduled event
\* ======================================================================

\* The calendar's event with this identifier, as the caller handed it in
CalendarEvent(id) == events[CHOOSE k \in 1..Len(events) : events[k].id = id]

StatusOf(e) == IF "status" \in DOMAIN e THEN e.status ELSE "scheduled"

\* C18: the nudges plan_day returns hold, for every event block with
\* priority high, one prep nudge naming the time 10 minutes before the
\* block's start, and, for every event of the day whose status is done, one
\* already-completed nudge.
C18_PrepAndDoneNudges ==
    plan # <<>> =>
        /\ \A k \in 1..Len(plan[1].blocks) :
              LET b == plan[1].blocks[k] IN
              (b.source = "event" /\ b.priority = "high") =>
                  Cardinality({n \in 1..Len(plan[1].nudges) :
                      /\ plan[1].nudges[n].kind = "prep"
                      /\ plan[1].nudges[n].title = b.title
                      /\ plan[1].nudges[n].at = b.start - 10}) = 1
        /\ \A k \in 1..Len(events) :
              (OnRefDate(events[k]) /\ StatusOf(events[k]) = "done") =>
                  Cardinality({n \in 1..Len(plan[1].nudges) :
                      /\ plan[1].nudges[n].kind = "already_completed"
                      /\ plan[1].nudges[n].title = events[k].title}) = 1

\* What plan_day's nudges do hold: one per reschedule, and the fallback's
C18_OnlyRescheduleNudges ==
    plan # <<>> =>
        /\ \A n \in 1..Len(plan[1].nudges) :
              plan[1].nudges[n].kind \in {"rescheduled", "no_events"}
        /\ Cardinality({n \in 1..Len(plan[1].nudges) : plan[1].nudges[n].kind = "rescheduled"})
              = Len(reschedules)

\* The candidate overlaps the last-scheduled event and has strictly higher
\* priority
C20_Case ==
    /\ pc = "deconflict"
    /\ scheduled # <<>>
    /\ todays[i]._start < scheduled[Len(scheduled)]._end
    /\ _priority_weight(todays[i].priority) < _priority_weight(scheduled[Len(scheduled)].priority)

\* The candidate takes the last place with its own start, and the displaced
\* event follows it, starting at max(candidate's end, from) with the
\* duration the calendar gives it
C20_Effect(from) ==
    LET e == todays[i]
        last == scheduled[Len(scheduled)]
        n == Len(scheduled)
    IN /\ Len(scheduled') = n + 1
       /\ SubSeq(scheduled', 1, n - 1) = SubSeq(scheduled, 1, n - 1)
       /\ scheduled'[n].id = e.id
       /\ scheduled'[n]._start = _parse_time(CalendarEvent(e.id).time)[1]
       /\ scheduled'[n + 1].id = last.id
       /\ scheduled'[n + 1]._start = Max2(e._end, from)
       /\ scheduled'[n + 1]._end - scheduled'[n + 1]._start
             = _get_duration(CalendarEvent(last.id))

MaxUpdates == 2

\* `add` commands fill the store; a title is free text, and `update --title`
\* may set it to any string, another event's identifier included
UpdShapes == [title : Titles, time : {<<0, 19, 0>>}, priority : {"normal"}]

UpdFields ==
    {[NoFields EXCEPT !.time = << <<0, 19, 10>> >>],
     [NoFields EXCEPT !.priority = <<"high">>],
     [NoFields EXCEPT !.title = <<"id2">>],
     [NoFields EXCEPT !.title = <<"Walk">>]}

UpdKeys == {"id1", "id2", "Standup", "Walk", "Nothing"}

UpdInit ==
    /\ NotUpdIdle
    /\ \E n \in 0..2 : \E shapes \in [1..n -> UpdShapes] : upd_file = AddAll(shapes, n)
    /\ upd_before = StoredEvents(upd_file)
    /\ upd_cmd = [name |-> "none"]
    /\ upd_count = 0

\* cmd_update lines 167-179: update_event(key, **fields)
UpdUpdate ==
    /\ upd_count < MaxUpdates
    /\ \E key \in UpdKeys, fields \in UpdFields :
       \E u \in {update_event(upd_file, key, fields)} :
          /\ upd_file' = u.file
          /\ upd_cmd' = [name |-> "update", key |-> key, fields |-> fields,
                         updated |-> u.updated]
    /\ upd_before' = StoredEvents(upd_file)
    /\ upd_count' = upd_count + 1
    /\ UNCHANGED notUpdVars

UpdNext == UpdUpdate

SpecUpdate == UpdInit /\ [][UpdNext]_vars

UpdStored == StoredEvents(upd_file)

WithId(evs, id) == {k \in 1..Len(evs) : evs[k].id = id}

First(hits) == CHOOSE k \in hits : \A j \in hits : k <= j

\* The event at `target` carries the update's fields and every other event
\* is as it was; with target 0 the store is as it was
OnlyModified(target) ==
    /\ Len(UpdStored) = Len(upd_before)
    /\ \A k \in 1..Len(upd_before) : k # target => UpdStored[k] = upd_before[k]
    /\ target # 0 =>
          /\ UpdStored[target].id = upd_before[target].id
          /\ UpdStored[target].title =
                (IF upd_cmd.fields.title # <<>> THEN upd_cmd.fields.title[1]
                 ELSE upd_before[target].title)
          /\ UpdStored[target].time =
                (IF upd_cmd.fields.time # <<>> THEN upd_cmd.fields.time[1]
                 ELSE upd_before[target].time)
          /\ UpdStored[target].priority =
                (IF upd_cmd.fields.priority # <<>> THEN upd_cmd.fields.priority[1]
                 ELSE upd_before[target].priority)

\* C21: update(key, fields) modifies the event whose identifier equals key
\* whenever there is one, and only when no identifier equals key the first
\* event in store order whose title equals key; an event whose title equals
\* key is not modified when another event has key as its identifier.
C21_IdentifierBeforeTitle ==
    upd_cmd.name = "update" =>
        OnlyModified(IF WithId(upd_before, upd_cmd.key) # {}
                     THEN First(WithId(upd_before, upd_cmd.key))
                     ELSE IF WithTitle(upd_before, upd_cmd.key) # {}
                     THEN First(WithTitle(upd_before, upd_cmd.key))
                     ELSE 0)

\* What update does: it modifies the first event in store order whose
\* identifier or title equals key
C21_FirstInStoreOrder ==
    upd_cmd.name = "update" =>
        OnlyModified(IF WithId(upd_before, upd_cmd.key) \cup WithTitle(upd_before, upd_cmd.key) # {}
                     THEN First(WithId(upd_before, upd_cmd.key)
                                   \cup WithTitle(upd_before, upd_cmd.key))
                     ELSE 0)

\* ======================================================================
\* The news briefing: feeds.summarize_articles
\* ======================================================================

MaxArticles == 2

\* Messages of the exceptions a model call raises
RateLimitExceeded ==
    <<"r", "a", "t", "e", "_", "l", "i", "m", "i", "t", "_", "e", "x", "c", "e", "e", "d", "e", "d">>
Http429 == <<"E", "r", "r", "o", "r", " ", "c", "o", "d", "e", ":", " ", "4", "2", "9">>
TimedOut == <<"R", "e", "q", "u", "e", "s", "t", " ", "t", "i", "m", "e", "d", " ", "o", "u", "t">>

\* Every failure taken for a rate limit
IsRateLimit_Always(e) == TRUE

\* line 139: "rate_limit_exceeded" in str(e) or "429" in str(e)
IsRateLimit(e) ==
    \/ Contains(e, RateLimitExceeded)
    \/ Contains(e, <<"4", "2", "9">>)

\* What a call gives: a summary, or an exception with its message
CallResults ==
    {[ok |-> TRUE, text |-> <<>>],
     [ok |-> FALSE, text |-> RateLimitExceeded],
     [ok |-> FALSE, text |-> Http429],
     [ok |-> FALSE, text |-> TimedOut]}

FeedArticles == [title : {"Rust ships"}, link : {"/a", "/b"}, content : {"", "text"}]

FeedsInit ==
    /\ NotFeedsIdle
    /\ s_pc = "article"
    /\ \E n \in 0..MaxArticles : s_articles \in [1..n -> FeedArticles]
    /\ art_i = 1
    /\ attempt = 0
    /\ summaries = <<>>
    /\ outcomes = [k \in 1..Len(s_articles) |-> <<>>]
    /\ waited = [k \in 1..Len(s_articles) |-> <<>>]

\* lines 101-104: the next article; without content it is skipped
S_Article ==
    /\ s_pc = "article"
    /\ art_i <= Len(s_articles)
    /\ IF s_articles[art_i].content = ""
       THEN art_i' = art_i + 1 /\ UNCHANGED s_pc
       ELSE s_pc' = "call" /\ UNCHANGED art_i
    /\ attempt' = 0
    /\ UNCHANGED <<s_articles, summaries, outcomes, waited, notFeedsVars>>

\* lines 120-146: one attempt: the call, and on a failure the sleep or the
\* end of the article's attempts
S_Attempt ==
    /\ s_pc = "call"
    /\ \E r \in CallResults :
          /\ outcomes' = [outcomes EXCEPT ![art_i] = Append(@, r)]
          /\ IF r.ok
             THEN /\ summaries' = Append(summaries, [title |-> s_articles[art_i].title,
                                                     link |-> s_articles[art_i].link])
                  /\ s_pc' = "article" /\ art_i' = art_i + 1
                  /\ UNCHANGED <<attempt, waited>>
             ELSE IF IsRateLimit(r.text)
             THEN /\ waited' = [waited EXCEPT ![art_i] = Append(@, 3 + attempt)]
                  /\ IF attempt + 1 < 3
                     THEN attempt' = attempt + 1 /\ UNCHANGED <<s_pc, art_i>>
                     ELSE s_pc' = "article" /\ art_i' = art_i + 1 /\ UNCHANGED attempt
                  /\ UNCHANGED summaries
             ELSE /\ s_pc' = "article" /\ art_i' = art_i + 1
                  /\ UNCHANGED <<attempt, summaries, waited>>
    /\ UNCHANGED <<s_articles, notFeedsVars>>

\* line 146
S_Return ==
    /\ s_pc = "article"
    /\ art_i > Len(s_articles)
    /\ s_pc' = "returned"
    /\ UNCHANGED <<s_articles, art_i, attempt, summaries, outcomes, waited, notFeedsVars>>

FeedsNext ==
    \/ S_Article
    \/ S_Attempt
    \/ S_Return

SpecFeeds == FeedsInit /\ [][FeedsNext]_vars /\ WF_vars(FeedsNext)

\* The failures that are rate limits, by their message
RateLimited(r) == ~r.ok /\ r.text \in {RateLimitExceeded, Http429}

Summarized(k) == outcomes[k] # <<>> /\ outcomes[k][Len(outcomes[k])].ok

\* The articles summarized, in input order
RECURSIVE SummarizedFrom(_)
SummarizedFrom(k) ==
    IF k > Len(s_articles) THEN <<>>
    ELSE (IF Summarized(k) THEN <<[title |-> s_articles[k].title, link |-> s_articles[k].link]>>
          ELSE <<>>) \o SummarizedFrom(k + 1)

\* C22: summarize_articles makes at most 3 model calls per article; a
\* further call for an article follows only a rate-limit failure of the
\* previous one; a success or any other failure ends the article's attempts;
\* after an article is abandoned the remaining articles are still processed;
\* the result holds at most one summary per input article, in input order.
C22_BoundedRetries ==
    /\ [](\A k \in 1..Len(s_articles) :
            /\ Len(outcomes[k]) <= 3
            /\ \A j \in 1..(Len(outcomes[k]) - 1) : RateLimited(outcomes[k][j]))
    /\ [][\A k \in 1..Len(s_articles) :
            (outcomes[k] # <<>> /\ ~RateLimited(outcomes[k][Len(outcomes[k])]))
                => outcomes'[k] = outcomes[k]]_vars
    /\ [](summaries = SummarizedFrom(1))
    /\ [](s_pc = "returned" =>
            \A k \in 1..Len(s_articles) : s_articles[k].content # "" => outcomes[k] # <<>>)
    /\ <>(s_pc = "returned")

\* The first article is abandoned after three rate-limited calls and the
\* second is summarized on its second call
C22_Witness ==
    /\ s_pc = "returned"
    /\ Len(s_articles) = 2
    /\ Len(outcomes[1]) = 3 /\ ~Summarized(1)
    /\ Len(outcomes[2]) = 2 /\ Summarized(2)
    /\ Len(summaries) = 1

\* An article is abandoned on a failure that is no rate limit, and the next
\* one is summarized
C22_WitnessOtherFailure ==
    /\ s_pc = "returned"
    /\ Len(s_articles) = 2
    /\ Len(outcomes[1]) = 1 /\ outcomes[1][1].text = TimedOut
    /\ Summarized(2)

\* ======================================================================
\* Write-back of focus blocks: writeback.materialize_focus_blocks
\* ======================================================================

MaxBlocks == 2

\* Focus blocks: "HH:MM" texts as minutes of the day, 1500 the text "25:00";
\* a block may lack its start or its end
FocusTexts == {540, 600, 1500}

FocusBlocks ==
    [start : FocusTexts, end : FocusTexts]
    \cup [start : FocusTexts] \cup [end : FocusTexts]

FocusInit ==
    /\ NotFocusIdle
    /\ foc_file \in {<<>>, save_calendar(<<>>)}
    /\ foc_now \in {510, MinutesPerDay + 1140}
    /\ foc_before = <<>>
    /\ foc_blocks = <<>>
    /\ foc_msgs = <<>>
    /\ foc_calls = 0

\* materialize_focus_blocks lines 34-67
FocusMaterialize ==
    /\ foc_calls = 0
    /\ \E n \in 0..MaxBlocks : \E fbs \in [1..n -> FocusBlocks] :
       \E r \in {materialize_focus_blocks(foc_file, Len(load_calendar(foc_file).events) + 1,
                                          fbs, foc_now, CONFIG.write_back.focus_block)} :
          /\ foc_before' = load_calendar(foc_file).events
          /\ foc_blocks' = fbs
          /\ foc_file' = r.file
          /\ foc_msgs' = r.msgs
    /\ foc_calls' = foc_calls + 1
    /\ UNCHANGED <<foc_now, notFocusVars>>

FocusNext == FocusMaterialize

SpecFocus == FocusInit /\ [][FocusNext]_vars

FocusStored == IF foc_file = <<>> THEN <<>> ELSE foc_file[1]

HasBoth(fb) == "start" \in DOMAIN fb /\ "end" \in DOMAIN fb

\* Both texts are times of day
Parsed(fb) == fb.start \in 0..(MinutesPerDay - 1) /\ fb["end"] \in 0..(MinutesPerDay - 1)

\* The blocks an event is due for: end after start, or times that cannot
\* be parsed
Due(fb) == HasBoth(fb) /\ (Parsed(fb) => fb["end"] > fb.start)

DueBlocks == SelectSeq(foc_blocks, Due)

\* C24: materialize_focus_blocks creates exactly one event (configured title,
\* category and priority, today's date at the block's start, duration = end
\* minus start) for each focus block whose end is after its start; one with
\* the configured default duration when the times cannot be parsed; none
\* for a block whose parsed duration is zero or negative or whose start or
\* end is missing; and returns exactly one message per created event.
C24_OneEventPerDueBlock ==
    foc_calls > 0 =>
        /\ Len(FocusStored) = Len(foc_before) + Len(DueBlocks)
        /\ SubSeq(FocusStored, 1, Len(foc_before)) = foc_before
        /\ \A k \in 1..Len(DueBlocks) :
              LET ev == FocusStored[Len(foc_before) + k]
                  fb == DueBlocks[k]
              IN /\ ev.title = "Focus Block"
                 /\ ev.category = "focus"
                 /\ ev.priority = "normal"
                 /\ ev.status = "scheduled"
                 /\ ev.time = <<date(foc_now), fb.start \div 60, fb.start % 60>>
                 /\ ev.duration_min = <<IF Parsed(fb) THEN fb["end"] - fb.start ELSE 60>>
                 /\ foc_msgs[k] = ev.id
        /\ Len(foc_msgs) = Len(DueBlocks)
        /\ \A m, n \in 1..Len(FocusStored) : m # n => FocusStored[m].id # FocusStored[n].id

\* One call handed a block of an hour and a block of length zero
C24_Witness ==
    /\ foc_calls > 0
    /\ foc_blocks = <<[start |-> 540, end |-> 600], [start |-> 600, end |-> 600]>>
    /\ Len(FocusStored) = 1
    /\ Len(foc_msgs) = 1

\* One call handed a block whose end cannot be parsed and a block without end
C24_WitnessDefault ==
    /\ foc_calls > 0
    /\ foc_blocks = <<[start |-> 540, end |-> 1500], [start |-> 540]>>
    /\ Len(FocusStored) = 1
    /\ FocusStored[1].duration_min = <<60>>

\* ======================================================================
\* plan_day: the blocks and the work window, and the reschedules
\* ======================================================================

InsideWorkWindow(b) == WORK_START <= b.start /\ b.start < b["end"] /\ b["end"] <= WORK_END

\* C25: every block plan_day returns, event block or gap block, lies inside
\* the work window: 08:00 <= start < end <= 20:00, also when events are
\* pushed past 20:00 by conflict resolution.
C25_BlocksInsideWorkWindow ==
    plan # <<>> => \A k \in 1..Len(plan[1].blocks) : InsideWorkWindow(plan[1].blocks[k])

\* The event blocks do lie inside the work window
C25_EventBlocksInside ==
    plan # <<>> =>
        \A k \in 1..Len(plan[1].blocks) :
            plan[1].blocks[k].source = "event" => InsideWorkWindow(plan[1].blocks[k])

\* C26: every Reschedule entry plan_day emits has old_start equal to the
\* event's start time as stored in the calendar and new_start strictly later
\* than old_start, and no event appears in the reschedules list more than
\* once.
C26_MovedOnceAndLater ==
    /\ \A k \in 1..Len(reschedules) :
          /\ reschedules[k].old_start = CalendarEvent(reschedules[k].id).time
          /\ ~IsoLeq(reschedules[k].new_start, reschedules[k].old_start)
    /\ \A m, n \in 1..Len(reschedules) :
          m # n => reschedules[m].id # reschedules[n].id

\* What the entries do satisfy: the first entry of an event has the
\* calendar's start as old_start and a strictly later new_start, and no
\* entry has a new_start earlier than its old_start
C26_FirstEntryMovesLater ==
    \A k \in 1..Len(reschedules) :
        /\ IsoLeq(reschedules[k].old_start, reschedules[k].new_start)
        /\ (\A m \in 1..(k - 1) : reschedules[m].id # reschedules[k].id) =>
              /\ reschedules[k].old_start = CalendarEvent(reschedules[k].id).time
              /\ reschedules[k].new_start # reschedules[k].old_start

\* The reschedules plan_day proposes for the store as it is now
ReschedulesNow == plan_day(get_today_events(calendar_file, now).events, now).reschedules

\* C27: after plan-commit has applied the reschedules of plan_day to the
\* store (all events carrying distinct identifiers) and has created no focus
\* block, planning the same day again from the updated store proposes no
\* reschedule.
C27_FixedPointInOneStep ==
    (/\ cli_pc = "done" /\ cmd.name = "plan-commit"
     /\ cmd.ran_reschedules /\ ~cmd.ran_focus) =>
        ReschedulesNow = <<>>

\* Where no event was moved twice in the pass, one write-back does settle
\* the day
C27_FixedPointWithoutSecondMove ==
    (/\ cli_pc = "done" /\ cmd.name = "plan-commit"
     /\ cmd.ran_reschedules /\ ~cmd.ran_focus
     /\ \A m, n \in 1..Len(cmd.plan.reschedules) :
           m # n => cmd.plan.reschedules[m].id # cmd.plan.reschedules[n].id) =>
        ReschedulesNow = <<>>

\* ======================================================================
\* The digest's feedback links: feeds.generate_email_html and the
\* feedback endpoint
\* ======================================================================

MaxFetched == 3

\* feeds lines 198-201: the fetched articles that were selected and
\* summarized, in the order fetched
RECURSIVE Selected(_, _, _)
Selected(fetched, chosen, k) ==
    IF k > Len(fetched) THEN <<>>
    ELSE (IF k \in chosen THEN <<fetched[k]>> ELSE <<>>) \o Selected(fetched, chosen, k + 1)

\* generate_email_html lines 164-169: the two links under the summary at
\* Python index idx
FeedbackLinks(idx) ==
    [up |-> [article |-> <<ToString(idx)>>, vote |-> <<"up">>],
     down |-> [article |-> <<ToString(idx)>>, vote |-> <<"down">>]]

generate_email_html(summaries_) == [k \in 1..Len(summaries_) |-> FeedbackLinks(k - 1)]

DigestInit ==
    /\ NotDigestIdle
    /\ d_pc = "fetched"
    /\ \E n \in 0..MaxFetched :
          /\ d_fetched \in [1..n -> Articles]
          /\ \A m, k \in 1..n : m # k => d_fetched[m] # d_fetched[k]
    /\ d_summaries = <<>>
    /\ d_links = <<>>
    /\ d_file = <<>>
    /\ d_before = <<>>
    /\ d_click = [name |-> "none"]

\* feeds lines 195-204: some of the fetched articles are selected and
\* summarized, and the digest is rendered
D_Digest ==
    /\ d_pc = "fetched"
    /\ \E chosen \in SUBSET (1..Len(d_fetched)) :
          /\ d_summaries' = Selected(d_fetched, chosen, 1)
          /\ d_links' = generate_email_html(d_summaries')
    /\ d_pc' = "sent"
    /\ UNCHANGED <<d_fetched, d_file, d_before, d_click, notDigestVars>>

\* feedback_server lines 12-19: a link of the digest is opened; the server
\* holds the articles of the same fetch (line 10)
D_Feedback ==
    /\ d_pc = "sent"
    /\ \E k \in 1..Len(d_links) : \E vote \in {"up", "down"} :
       \E h \in {handle_feedback_url(d_file, d_links[k][vote], d_fetched)} :
          /\ d_file' = h.file
          /\ d_click' = [name |-> "feedback", k |-> k, vote |-> vote, outcome |-> h.outcome]
    /\ d_before' = d_file
    /\ d_pc' = "voted"
    /\ UNCHANGED <<d_fetched, d_summaries, d_links, notDigestVars>>

DigestNext ==
    \/ D_Digest
    \/ D_Feedback

SpecDigest == DigestInit /\ [][DigestNext]_vars

\* C28: the thumbs-up or thumbs-down link rendered for the i-th summary,
\* when received by the feedback endpoint, updates the scores of the
\* article the i-th summary was produced from (its source and its title
\* words).
C28_LinkVotesOnItsArticle ==
    d_pc = "voted" =>
        d_file = update_feedback(d_before, d_summaries[d_click.k], d_click.vote)

\* The article the endpoint votes on is the one at the summary's position
\* in the list of fetched articles
C28_LinkVotesOnFetchedPosition ==
    d_pc = "voted" =>
        /\ d_click.outcome = "updated"
        /\ d_file = update_feedback(d_before, d_fetched[d_click.k], d_click.vote)

\* ======================================================================
\* Two processes in utils/persistance.save_json on the same path
\* ======================================================================

Procs == {1, 2}

RaceInit ==
    /\ NotRaceIdle
    /\ sv_pc = [p \in Procs |-> "call"]
    /\ sv_elapsed = [p \in Procs |-> 0]
    /\ sv_marker = 0
    /\ sv_foreign = FALSE

\* _acquire_lock lines 16-17: start = time.time()
R_Start(p) ==
    /\ sv_pc[p] = "call"
    /\ sv_pc' = [sv_pc EXCEPT ![p] = "check"]
    /\ UNCHANGED <<sv_elapsed, sv_marker, sv_foreign, notRaceVars>>

\* line 18: while lock.exists()
R_Check(p) ==
    /\ sv_pc[p] = "check"
    /\ sv_pc' = [sv_pc EXCEPT ![p] = IF sv_marker # 0 THEN "expired" ELSE "touch"]
    /\ UNCHANGED <<sv_elapsed, sv_marker, sv_foreign, notRaceVars>>

\* line 19: if time.time() - start > timeout
R_Expired(p) ==
    /\ sv_pc[p] = "expired"
    /\ sv_pc' = [sv_pc EXCEPT ![p] = IF sv_elapsed[p] > timeout THEN "unlink" ELSE "sleep"]
    /\ UNCHANGED <<sv_elapsed, sv_marker, sv_foreign, notRaceVars>>

\* lines 21-24: lock.unlink() removes the marker; it raises when the marker
\* is gone by now, and the caller raises TimeoutError
R_Unlink(p) ==
    /\ sv_pc[p] = "unlink"
    /\ sv_pc' = [sv_pc EXCEPT ![p] = IF sv_marker # 0 THEN "sleep" ELSE "failed"]
    /\ sv_marker' = 0
    /\ UNCHANGED <<sv_elapsed, sv_foreign, notRaceVars>>

\* line 25: time.sleep(poll)
R_Sleep(p) ==
    /\ sv_pc[p] = "sleep"
    /\ \E d \in poll..MaxSleep :
          sv_elapsed' = [sv_elapsed EXCEPT ![p] = Min2(@ + d, ElapsedCap)]
    /\ sv_pc' = [sv_pc EXCEPT ![p] = "check"]
    /\ UNCHANGED <<sv_marker, sv_foreign, notRaceVars>>

\* line 26: lock.touch(exist_ok=True) creates the marker, or leaves the one
\* that is there; _acquire_lock returns
R_Touch(p) ==
    /\ sv_pc[p] = "touch"
    /\ sv_marker' = IF sv_marker = 0 THEN p ELSE sv_marker
    /\ sv_pc' = [sv_pc EXCEPT ![p] = "write"]
    /\ UNCHANGED <<sv_elapsed, sv_foreign, notRaceVars>>

\* save_json lines 51-54: the temp file is written and renamed
R_Write(p) ==
    /\ sv_pc[p] = "write"
    /\ sv_pc' = [sv_pc EXCEPT ![p] = "release"]
    /\ UNCHANGED <<sv_elapsed, sv_marker, sv_foreign, notRaceVars>>

\* _release_lock line 31: if lock.exists()
R_ReleaseCheck(p) ==
    /\ sv_pc[p] = "release"
    /\ sv_pc' = [sv_pc EXCEPT ![p] = IF sv_marker # 0 THEN "release_unlink" ELSE "done"]
    /\ UNCHANGED <<sv_elapsed, sv_marker, sv_foreign, notRaceVars>>

\* _release_lock lines 32-35: lock.unlink(), an exception passed over
R_ReleaseUnlink(p) ==
    /\ sv_pc[p] = "release_unlink"
    /\ sv_foreign' = (sv_foreign \/ sv_marker \notin {0, p})
    /\ sv_marker' = 0
    /\ sv_pc' = [sv_pc EXCEPT ![p] = "done"]
    /\ UNCHANGED <<sv_elapsed, notRaceVars>>

RaceNext ==
    \E p \in Procs :
        \/ R_Start(p)
        \/ R_Check(p)
        \/ R_Expired(p)
        \/ R_Unlink(p)
        \/ R_Sleep(p)
        \/ R_Touch(p)
        \/ R_Write(p)
        \/ R_ReleaseCheck(p)
        \/ R_ReleaseUnlink(p)

SpecRace == RaceInit /\ [][RaceNext]_vars

\* Between _acquire_lock returning and _release_lock having run
InLockedSection(p) == sv_pc[p] \in {"write", "release", "release_unlink"}

\* C29: for any interleaving of two processes calling save_json on the same
\* path, at most one process at a time is inside the locked section, and a
\* process's _release_lock never removes a lock marker the other process
\* created.
C29_OneInLockedSection ==
    /\ ~(InLockedSection(1) /\ InLockedSection(2))
    /\ ~sv_foreign

\* ======================================================================
\* The collector's tables and the flows registry
\* ======================================================================

\* The flow identifiers the rows of the per-kind tables carry
RowFlowIds(con) ==
    {con.gps[k].flow_id : k \in 1..Len(con.gps)}
    \cup {con.calendar_events[k].flow_id : k \in 1..Len(con.calendar_events)}
    \cup {con.screen_usage_sessions[k].flow_id : k \in 1..Len(con.screen_usage_sessions)}
    \cup {con.user_events[k].flow_id : k \in 1..Len(con.user_events)}

\* C30: after any sequence of send_data calls, successful or failing, every
\* row of the gps, calendar_events, screen_usage_sessions and user_events
\* tables carries a flow_id that is in the flows table, the flows table
\* holds exactly one row per distinct flow identifier, and a call that fails
\* validation or storage leaves all tables unchanged.
C30_FlowsRegistry ==
    /\ RowFlowIds(db) \subseteq FlowIdsIn(db)
    /\ \A m, n \in 1..Len(db.flows) : m # n => db.flows[m].flow_id # db.flows[n].flow_id
    /\ (t_call.name = "send_data" /\ t_call.outcome # "ok") => db = t_before

\* Two calls under one flow identifier have stored rows in two tables, and
\* the registry holds the identifier once
C30_Witness ==
    /\ t_calls = 2
    /\ t_call.name = "send_data" /\ t_call.outcome = "ok"
    /\ Len(db.flows) = 1
    /\ Len(db.gps) = 1
    /\ Len(db.calendar_events) = 2
    /\ db.gps[1].flow_id = db.calendar_events[2].flow_id

\* A call whose store raises after validation, under an identifier the
\* registry does not hold, has left the tables as they were
C30_WitnessStorageFails ==
    /\ t_calls = 2
    /\ t_call.name = "send_data" /\ t_call.outcome = "TypeError"
    /\ t_call.flow_id # <<>> /\ t_call.flow_id[1] \notin FlowIdsIn(db)
    /\ Len(db.flows) = 1
    /\ db = t_before

====
